---- MODULE Spec2Model ----
(***************************************************************************)
(* HashVault Monero pool dashboard.                                        *)
(*                                                                         *)
(*   src/client/pages/Index.tsx                   the dashboard page       *)
(*   src/client/components/pool/BlockVisualizer.tsx  compact block feed    *)
(*   src/client/lib/formatters.ts                 formatters, full chain   *)
(*                                                 visualization           *)
(*                                                                         *)
(* Spec is the page as a state machine: three useQuery observers           *)
(* (@tanstack/react-query, called with queryKey, queryFn and               *)
(* refetchInterval only, every other option at the library's default), the *)
(* 1 s clock interval, the two buttons that call refetch(), and unmount.   *)
(* The browser window is taken to stay focused and online.  Timers are     *)
(* kept as armed periods; which armed timer fires next is left open, which *)
(* covers every latency a fetch can have.                                  *)
(*                                                                         *)
(* The fields of every record are written in the order in which TLC keeps  *)
(* them, the order of their first occurrence in the module, so that a      *)
(* record is never reordered while several workers evaluate it.            *)
(***************************************************************************)
EXTENDS Integers, Sequences, FiniteSets, TLC

VARIABLES
    mounted,            \* the MoneroPool component is mounted
    query,              \* react-query state of each of the three queries
    refetchIntervalId,  \* per query: period (ms) of the armed poll interval, 0 = none
    clockTimer,         \* period (ms) of the armed clock interval, 0 = none
    time,               \* useState(new Date()): seconds shown by the live clock
    pulse,              \* useState(false)
    lastIssue,          \* what started the most recent fetch: "mount", "interval", "refetch"
    call,               \* pure-function harness: the call under evaluation
    result,             \* pure-function harness: what the call returned
    pendingMounted,     \* a PendingBlock component is mounted
    pulseTimer,         \* period (ms) of the PendingBlock's armed interval, 0 = none
    pulseIntensity      \* useState(0) of the PendingBlock: Math.random() in tenths

vars ==
    <<mounted, query, refetchIntervalId, clockTimer, time, pulse, lastIssue, call, result,
      pendingMounted, pulseTimer, pulseIntensity>>

pageVars == <<mounted, query, refetchIntervalId, clockTimer, time, pulse, lastIssue>>

pendingVars == <<pendingMounted, pulseTimer, pulseIntensity>>

(***************************************************************************)
(* JavaScript values.  An optional value is a sequence of length 0         *)
(* (undefined) or 1.                                                       *)
(***************************************************************************)
None == <<>>

Some(x) == <<x>>

IsSome(o) == Len(o) = 1

The(o) == o[1]

(***************************************************************************)
(* A JavaScript value that the formatters receive: undefined, null, NaN or *)
(* a finite number.  A number is kept in decimal: sign, integer digits     *)
(* (most significant first, no leading zero, <<>> for 0) and fraction      *)
(* digits (no trailing zero), so that 10^12-sized amounts and the decimal  *)
(* places of toFixed are exact.                                            *)
(***************************************************************************)
Digit == 0..9

Undefined == [t |-> "undefined", neg |-> FALSE, i |-> <<>>, f |-> <<>>]

Null == [t |-> "null", neg |-> FALSE, i |-> <<>>, f |-> <<>>]

NaN == [t |-> "nan", neg |-> FALSE, i |-> <<>>, f |-> <<>>]

RECURSIVE StripLeading(_)
StripLeading(ds) ==
    IF ds # <<>> /\ ds[1] = 0 THEN StripLeading(Tail(ds)) ELSE ds

RECURSIVE StripTrailing(_)
StripTrailing(ds) ==
    IF ds # <<>> /\ ds[Len(ds)] = 0 THEN StripTrailing(SubSeq(ds, 1, Len(ds) - 1)) ELSE ds

Number(neg, i, f) ==
    LET ii == StripLeading(i)
        ff == StripTrailing(f)
    IN  [t |-> "number", neg |-> (neg /\ (ii # <<>> \/ ff # <<>>)), i |-> ii, f |-> ff]

RECURSIVE NatDigits(_)
NatDigits(n) ==
    IF n = 0 THEN <<>> ELSE Append(NatDigits(n \div 10), n % 10)

Num(n) == Number(n < 0, NatDigits(IF n < 0 THEN -n ELSE n), <<>>)

RECURSIVE DigitsNat(_)
DigitsNat(ds) ==
    IF ds = <<>> THEN 0 ELSE 10 * DigitsNat(SubSeq(ds, 1, Len(ds) - 1)) + ds[Len(ds)]

Zeros(n) == [k \in 1..n |-> 0]

IsZero(x) == x.t = "number" /\ x.i = <<>> /\ x.f = <<>>

\* ToBoolean: !x is true for undefined, null, NaN and 0
Falsy(x) == x.t \in {"undefined", "null", "nan"} \/ IsZero(x)

\* ToNumber, as the arithmetic and relational operators apply it
ToNumber(x) ==
    CASE x.t = "undefined" -> NaN
      [] x.t = "null" -> Number(FALSE, <<>>, <<>>)
      [] OTHER -> x

\* x >= 10^k
GePow10(x, k) ==
    LET n == ToNumber(x)
    IN  n.t = "number" /\ ~n.neg /\ Len(n.i) >= k + 1

\* x / 10^k: the decimal point moves k places to the left
DivPow10(x, k) ==
    LET n == ToNumber(x)
    IN  IF n.t # "number" THEN n
        ELSE LET padded == Zeros(k) \o n.i
                 cut == Len(padded) - k
             IN  Number(n.neg, SubSeq(padded, 1, cut), SubSeq(padded, cut + 1, Len(padded)) \o n.f)

\* digits * 10^e, e.g. Scaled(<<1, 5>>, 11) is 1500000000000 and Scaled(<<5>>, -1) is 0.5
Scaled(head, e) ==
    IF e >= 0 THEN Number(FALSE, head \o Zeros(e), <<>>)
    ELSE DivPow10(Number(FALSE, head, <<>>), -e)

Negated(x) == [x EXCEPT !.neg = TRUE]

(***************************************************************************)
(* Strings are sequences of characters; a fixed text is one element.        *)
(***************************************************************************)
DigitChar == <<"0", "1", "2", "3", "4", "5", "6", "7", "8", "9">>

DigitStr(ds) == [k \in 1..Len(ds) |-> DigitChar[ds[k] + 1]]

\* what a call returns: a string, or a thrown TypeError
Returned(text) == [text |-> text, threw |-> FALSE]

Thrown == [text |-> <<"T", "y", "p", "e", "E", "r", "r", "o", "r">>, threw |-> TRUE]

RECURSIVE Increment(_)
\* the digit string plus one, 999 -> 1000
Increment(ds) ==
    IF ds = <<>> THEN <<1>>
    ELSE IF ds[Len(ds)] < 9 THEN SubSeq(ds, 1, Len(ds) - 1) \o <<ds[Len(ds)] + 1>>
    ELSE Increment(SubSeq(ds, 1, Len(ds) - 1)) \o <<0>>

\* how the digits dropped by a rounding compare with one half
Remainder(rest) ==
    IF rest = <<>> \/ rest[1] < 5 THEN "below"
    ELSE IF rest[1] > 5 \/ StripTrailing(rest) # <<5>> THEN "above"
    ELSE "half"

\* Number.prototype.toFixed(digits) of a finite number below 10^21, as the scaled
\* integer n with n / 10^digits nearest to x.  The receiver is a double: where
\* the decimal value lies exactly half way, the double lies on either side (or
\* on it, and the larger n is taken), so a tie goes the way tieUp says.
FixedDigits(x, digits, tieUp) ==
    LET frac == x.f \o Zeros(digits)
        kept == x.i \o SubSeq(frac, 1, digits)
        r == Remainder(SubSeq(frac, digits + 1, Len(frac)))
    IN  IF r = "above" \/ (r = "half" /\ tieUp) THEN Increment(kept) ELSE kept

FixedText(n, digits, neg) ==
    LET padded == IF Len(n) < digits + 1 THEN Zeros(digits + 1 - Len(n)) \o n ELSE n
        cut == Len(padded) - digits
        int == DigitStr(SubSeq(padded, 1, cut))
        fraction == DigitStr(SubSeq(padded, cut + 1, Len(padded)))
        sign == IF neg THEN <<"-">> ELSE <<>>
    IN  sign \o int \o (IF digits > 0 THEN <<".">> \o fraction ELSE <<>>)

\* x.toFixed(digits): a TypeError on undefined and null, which have no methods
toFixed(x, digits, tieUp) ==
    CASE x.t \in {"undefined", "null"} -> Thrown
      [] x.t = "nan" -> Returned(<<"N", "a", "N">>)
      [] OTHER -> Returned(FixedText(StripLeading(FixedDigits(x, digits, tieUp)), digits, x.neg))

Concat(r, suffix) == IF r.threw THEN r ELSE Returned(r.text \o suffix)

RECURSIVE Grouped(_)
\* the integer digits with a comma before every group of three
Grouped(ds) ==
    IF Len(ds) <= 3 THEN DigitStr(ds)
    ELSE Grouped(SubSeq(ds, 1, Len(ds) - 3)) \o <<",">> \o DigitStr(SubSeq(ds, Len(ds) - 2, Len(ds)))

\* Number.prototype.toLocaleString() in the en-US locale the spec's examples
\* are written in: grouped integer digits, at most 3 fraction digits
toLocaleString(x, tieUp) ==
    CASE x.t \in {"undefined", "null"} -> Thrown
      [] x.t = "nan" -> Returned(<<"N", "a", "N">>)
      [] OTHER ->
            LET n == FixedDigits(x, 3, tieUp)
                padded == IF Len(n) < 4 THEN Zeros(4 - Len(n)) \o n ELSE n
                cut == Len(padded) - 3
                int == StripLeading(SubSeq(padded, 1, cut))
                fraction == StripTrailing(SubSeq(padded, cut + 1, Len(padded)))
            IN  Returned((IF x.neg THEN <<"-">> ELSE <<>>)
                         \o (IF int = <<>> THEN <<"0">> ELSE Grouped(int))
                         \o (IF fraction = <<>> THEN <<>> ELSE <<".">> \o DigitStr(fraction)))

(***************************************************************************)
(* src/client/lib/formatters.ts, the formatting utilities                  *)
(***************************************************************************)
ZeroHashRate == <<"0", " ", "H", "/", "s">>

\* x > 10^k
GtPow10(x, k) ==
    GePow10(x, k) /\ LET n == ToNumber(x) IN n.f # <<>> \/ StripTrailing(n.i) # <<1>>

\* formatHashRate with every threshold compared by > instead of >=
formatHashRate_strict(hash, tieUp) ==
    IF Falsy(hash) THEN Returned(ZeroHashRate)
    ELSE IF GtPow10(hash, 12) THEN Concat(toFixed(DivPow10(hash, 12), 2, tieUp), <<" ", "T", "H", "/", "s">>)
    ELSE IF GtPow10(hash, 9) THEN Concat(toFixed(DivPow10(hash, 9), 2, tieUp), <<" ", "G", "H", "/", "s">>)
    ELSE IF GtPow10(hash, 6) THEN Concat(toFixed(DivPow10(hash, 6), 2, tieUp), <<" ", "M", "H", "/", "s">>)
    ELSE IF GtPow10(hash, 3) THEN Concat(toFixed(DivPow10(hash, 3), 2, tieUp), <<" ", "K", "H", "/", "s">>)
    ELSE Concat(toFixed(hash, 2, tieUp), <<" ", "H", "/", "s">>)

formatHashRate(hash, tieUp) ==
    IF Falsy(hash) THEN Returned(ZeroHashRate)
    ELSE IF GePow10(hash, 12) THEN Concat(toFixed(DivPow10(hash, 12), 2, tieUp), <<" ", "T", "H", "/", "s">>)
    ELSE IF GePow10(hash, 9) THEN Concat(toFixed(DivPow10(hash, 9), 2, tieUp), <<" ", "G", "H", "/", "s">>)
    ELSE IF GePow10(hash, 6) THEN Concat(toFixed(DivPow10(hash, 6), 2, tieUp), <<" ", "M", "H", "/", "s">>)
    ELSE IF GePow10(hash, 3) THEN Concat(toFixed(DivPow10(hash, 3), 2, tieUp), <<" ", "K", "H", "/", "s">>)
    ELSE Concat(toFixed(hash, 2, tieUp), <<" ", "H", "/", "s">>)

formatNumber(num, tieUp) ==
    IF Falsy(num) THEN Returned(<<"0">>) ELSE toLocaleString(num, tieUp)

\* formatXMR guarding with atomic === 0 instead of !atomic
formatXMR_zeroOnly(atomic, tieUp) ==
    IF IsZero(atomic) THEN Returned(<<"0">>) ELSE toFixed(DivPow10(atomic, 12), 8, tieUp)

formatXMR(atomic, tieUp) ==
    IF Falsy(atomic) THEN Returned(<<"0">>) ELSE toFixed(DivPow10(atomic, 12), 8, tieUp)

\* the second declaration of formatXMR with the 8 decimals of the first
formatXMR_chain_eight(atomic, tieUp) ==
    IF Falsy(atomic) THEN Returned(<<"0">>) ELSE toFixed(DivPow10(atomic, 12), 8, tieUp)

\* the second declaration of formatXMR, local to the full chain visualization
formatXMR_chain(atomic, tieUp) ==
    IF Falsy(atomic) THEN Returned(<<"0">>) ELSE toFixed(DivPow10(atomic, 12), 4, tieUp)

\* the second declaration of formatNumber, local to the full chain visualization
formatNumber_chain(num, tieUp) ==
    IF Falsy(num) THEN Returned(<<"0">>) ELSE toLocaleString(num, tieUp)

(***************************************************************************)
(* What React renders for {value}: the digits of a number, nothing for     *)
(* undefined and null.                                                     *)
(***************************************************************************)
jsText(x) ==
    CASE x.t \in {"undefined", "null"} -> <<>>
      [] x.t = "nan" -> <<"N", "a", "N">>
      [] OTHER -> (IF x.neg THEN <<"-">> ELSE <<>>)
                  \o (IF x.i = <<>> THEN <<"0">> ELSE DigitStr(x.i))
                  \o (IF x.f = <<>> THEN <<>> ELSE <<".">> \o DigitStr(x.f))

\* x || 0
OrZero(x) == IF Falsy(x) THEN Number(FALSE, <<>>, <<>>) ELSE x

TwoDigits(n) == DigitStr(<<n \div 10, n % 10>>)

\* new Date(ts * 1000).toLocaleTimeString(), for a whole number of seconds and
\* with the locale and time zone fixed to 24-hour UTC: hh:mm:ss.  undefined * 1000
\* is NaN, an invalid date; null * 1000 is 0, the epoch.
toLocaleTimeString(ts) ==
    LET n == ToNumber(ts)
    IN  IF n.t # "number" THEN <<"Invalid Date">>
        ELSE LET s == DigitsNat(n.i) % 86400
             IN  TwoDigits(s \div 3600) \o <<":">> \o TwoDigits((s % 3600) \div 60)
                     \o <<":">> \o TwoDigits(s % 60)

\* String.prototype.slice(0, n)
SliceTo(str, n) == SubSeq(str, 1, IF Len(str) < n THEN Len(str) ELSE n)

\* Array.prototype.slice(0, n)
SliceFirst(arr, n) == SubSeq(arr, 1, IF Len(arr) < n THEN Len(arr) ELSE n)

\* Math.min(x, 100) of a number that is not negative
MinHundred(x) == IF x.t = "number" /\ ~x.neg /\ Len(x.i) >= 3 THEN Num(100) ELSE x

(***************************************************************************)
(* src/client/components/pool/BlockVisualizer.tsx: the compact block feed. *)
(* A block is a record of optional fields as the blocks endpoint sends     *)
(* them; blocks is None for undefined and Some(array) otherwise.           *)
(***************************************************************************)
FeedRowsShown == 5

FeedSkeletons == 3

FeedRow(block, index, tieUp) ==
    LET reward == formatXMR(block.reward, tieUp)
        fee == formatXMR(block.fee, tieUp)
    IN  [time |-> toLocaleTimeString(block.ts),
         threw |-> (reward.threw \/ fee.threw),
         hash |-> (IF IsSome(block.hash) THEN SliceTo(The(block.hash), 16) ELSE <<>>) \o <<"...">>,
         reward |-> reward.text \o <<" XMR">>,
         fee |-> <<"Fee: ">> \o fee.text,
         key |-> block.hash,
         height |-> <<"#">> \o jsText(block.height),
         justFound |-> (index = 0)]

\* the parameter blocks = []: the default replaces undefined before the body runs
BlockchainVisual_blocks(blocks) == IF blocks = None THEN Some(<<>>) ELSE blocks

\* the parameter currentEffort = 0 (and networkDifficulty = 0, poolHashRate = 0)
DefaultZero(x) == IF x.t = "undefined" THEN Number(FALSE, <<>>, <<>>) ELSE x

\* recentBlocks with the feed cut after the blocks that the full chain shows
BlockchainVisual_recentBlocks_six(blocks) ==
    IF IsSome(blocks) THEN SliceFirst(The(blocks), FeedRowsShown + 1) ELSE <<>>

\* const recentBlocks = blocks?.slice(0, 5) || []
BlockchainVisual_recentBlocks(blocks) ==
    IF IsSome(blocks) THEN SliceFirst(The(blocks), FeedRowsShown) ELSE <<>>

BlockchainVisual(blocksProp, currentEffortProp, networkDifficultyProp, poolHashRateProp, tieUp) ==
    LET blocks == BlockchainVisual_blocks(blocksProp)
        currentEffort == DefaultZero(currentEffortProp)
        networkDifficulty == DefaultZero(networkDifficultyProp)
        poolHashRate == DefaultZero(poolHashRateProp)
        recentBlocks == BlockchainVisual_recentBlocks(blocks)
        effortPercentage == MinHundred(OrZero(currentEffort))
        isLoading == blocks = None
        effortText == IF currentEffort.t = "null" THEN Returned(<<>>) ELSE toFixed(currentEffort, 2, tieUp)
        rows == [k \in 1..Len(recentBlocks) |-> FeedRow(recentBlocks[k], k - 1, tieUp)]
        total == formatNumber(Num(Len(recentBlocks)), tieUp)
        diff == formatNumber(networkDifficulty, tieUp)
        hash == formatNumber(poolHashRate, tieUp)
    IN  IF isLoading
        THEN [threw |-> FALSE, rows |-> <<>>, skeletons |-> FeedSkeletons, effortLabel |-> <<>>,
              barWidth |-> <<>>, emptyMessage |-> <<>>, totalBlocks |-> <<>>, networkDiff |-> <<>>,
              poolHash |-> <<>>]
        ELSE [threw |-> (effortText.threw \/ total.threw \/ diff.threw \/ hash.threw
                            \/ \E k \in 1..Len(rows) : rows[k].threw),
              rows |-> rows,
              skeletons |-> 0,
              effortLabel |-> (IF effortText.text = <<>> THEN <<"0">> ELSE effortText.text) \o <<"%">>,
              barWidth |-> jsText(MinHundred(effortPercentage)) \o <<"%">>,
              emptyMessage |-> IF Len(recentBlocks) > 0 THEN <<>> ELSE <<"No blocks found yet">>,
              totalBlocks |-> total.text,
              networkDiff |-> diff.text,
              poolHash |-> hash.text]

(***************************************************************************)
(* src/client/lib/formatters.ts from line 23: the full chain               *)
(* visualization, with its own formatXMR and formatNumber.                 *)
(***************************************************************************)
\* x < n for a whole number n >= 0: false when x is NaN
Lt(x, n) ==
    LET v == ToNumber(x)
    IN  v.t = "number" /\ (v.neg \/ (Len(v.i) <= 9 /\ DigitsNat(v.i) < n))

\* x > n for a whole number n >= 0: false when x is NaN
Gt(x, n) ==
    LET v == ToNumber(x)
    IN  /\ v.t = "number" /\ ~v.neg
        /\ (Len(v.i) > 9 \/ DigitsNat(v.i) > n \/ (DigitsNat(v.i) = n /\ v.f # <<>>))

\* the decimal text of a whole number
IntText(n) == IF n < 0 THEN <<"-">> \o DigitStr(NatDigits(0 - n))
              ELSE IF n = 0 THEN <<"0">> ELSE DigitStr(NatDigits(n))

\* formatTimeAgo(ts) at Date.now() = now seconds and some milliseconds, for ts
\* a whole number of seconds that is not negative: the milliseconds are
\* floored away.  A ts that is not a number makes every comparison false.
formatTimeAgo(ts, now) ==
    LET n == ToNumber(ts)
        seconds == now - DigitsNat(n.i)
    IN  IF n.t # "number" THEN <<"N", "a", "N">> \o <<"d ago">>
        ELSE IF seconds < 60 THEN IntText(seconds) \o <<"s ago">>
        ELSE IF seconds < 3600 THEN IntText(seconds \div 60) \o <<"m ago">>
        ELSE IF seconds < 86400 THEN IntText(seconds \div 3600) \o <<"h ago">>
        ELSE IntText(seconds \div 86400) \o <<"d ago">>

BlockCard_effortColor(effort) ==
    IF Lt(effort, 50) THEN "from-green-500 to-green-600"
    ELSE IF Lt(effort, 100) THEN "from-cyan-500 to-blue-500"
    ELSE IF Lt(effort, 150) THEN "from-orange-500 to-amber-500"
    ELSE "from-red-500 to-pink-500"

\* effortBorder with the cyan tier ending below 100 only, the way <= 99 would
BlockCard_effortBorder_closed(effort) ==
    IF Lt(effort, 50) THEN "border-green-500/50"
    ELSE IF ~Gt(effort, 99) THEN "border-cyan-500/50"
    ELSE IF Lt(effort, 150) THEN "border-orange-500/50"
    ELSE "border-red-500/50"

BlockCard_effortBorder(effort) ==
    IF Lt(effort, 50) THEN "border-green-500/50"
    ELSE IF Lt(effort, 100) THEN "border-cyan-500/50"
    ELSE IF Lt(effort, 150) THEN "border-orange-500/50"
    ELSE "border-red-500/50"

BlockCard_effortGlow(effort) ==
    IF Lt(effort, 50) THEN "shadow-green-500/30"
    ELSE IF Lt(effort, 100) THEN "shadow-cyan-500/30"
    ELSE IF Lt(effort, 150) THEN "shadow-orange-500/30"
    ELSE "shadow-red-500/30"

ChainArrowsUpTo == 5

BlockCard(block, index, isLatest, now, tieUp) ==
    LET effort == OrZero(block.effort)
        effortText == toFixed(effort, 1, tieUp)
        height == formatNumber_chain(block.height, tieUp)
        reward == formatXMR_chain(block.value, tieUp)
    IN  [time |-> formatTimeAgo(block.ts, now),
         threw |-> (effortText.threw \/ height.threw \/ reward.threw),
         hash |-> (IF IsSome(block.hash) THEN SliceTo(The(block.hash), 8) ELSE <<>>) \o <<"...">>,
         reward |-> reward.text,
         key |-> block.hash,
         height |-> <<"#">> \o height.text,
         effortLabel |-> effortText.text \o <<"%">>,
         isLatest |-> isLatest,
         effortColor |-> BlockCard_effortColor(effort),
         effortBorder |-> BlockCard_effortBorder(effort),
         effortGlow |-> BlockCard_effortGlow(effort),
         effortTextColor |-> (IF Lt(effort, 100) THEN "text-green-400" ELSE "text-orange-400"),
         badge |-> (IF block.solo = Some(TRUE) THEN "SOLO" ELSE "POOL"),
         arrow |-> (index < ChainArrowsUpTo)]

\* the digits of a decimal as a whole number of units of its last place, with
\* places decimals
ScaledDigits(x, places) == x.i \o x.f \o Zeros(places - Len(x.f))

Max(a, b) == IF a > b THEN a ELSE b

Min(a, b) == IF a < b THEN a ELSE b

RECURSIVE TrailingZeros(_)
TrailingZeros(ds) ==
    IF ds # <<>> /\ ds[Len(ds)] = 0 THEN 1 + TrailingZeros(SubSeq(ds, 1, Len(ds) - 1)) ELSE 0

RECURSIVE LongDivision(_, _, _)
\* the digits of ds / k, one for each digit of ds, then 1 if anything remains
\* and 0 if nothing does
LongDivision(ds, k, rem) ==
    IF ds = <<>> THEN <<IF rem = 0 THEN 0 ELSE 1>>
    ELSE <<(10 * rem + ds[1]) \div k>> \o LongDivision(Tail(ds), k, (10 * rem + ds[1]) % k)

\* Math.floor(a / b), b other than 0, neither NaN.  Taken on operands whose
\* doubles divide to a quotient that floors as the exact quotient does, whole
\* numbers below 2^53 among them, and on a divisor of at most 8 digits once
\* the zeros that end both operands are dropped.
FloorDiv(a, b) ==
    LET places == Max(Len(a.f), Len(b.f))
        da == ScaledDigits(a, places)
        db == ScaledDigits(b, places)
        zeros == Min(TrailingZeros(da), TrailingZeros(db))
        q == LongDivision(SubSeq(da, 1, Len(da) - zeros), DigitsNat(SubSeq(db, 1, Len(db) - zeros)), 0)
        whole == SubSeq(q, 1, Len(q) - 1)
    IN  IF a.neg = b.neg THEN Number(FALSE, whole, <<>>)
        ELSE Number(TRUE, IF q[Len(q)] = 1 THEN Increment(StripLeading(whole)) ELSE whole, <<>>)

PulseInterval == 100

\* estimatedSeconds with the guard difficulty > 0 && poolHashRate > 0
PendingBlock_estimatedSeconds_positive(difficulty, poolHashRate) ==
    IF Gt(difficulty, 0) /\ Gt(poolHashRate, 0) THEN FloorDiv(difficulty, poolHashRate)
    ELSE Number(FALSE, <<>>, <<>>)

\* difficulty && poolHashRate ? Math.floor(difficulty / poolHashRate) : 0
PendingBlock_estimatedSeconds(difficulty, poolHashRate) ==
    IF ~Falsy(difficulty) /\ ~Falsy(poolHashRate) THEN FloorDiv(difficulty, poolHashRate)
    ELSE Number(FALSE, <<>>, <<>>)

PendingBlock(currentEffortProp, difficultyProp, poolHashRateProp, intensity, tieUp) ==
    LET currentEffort == DefaultZero(currentEffortProp)
        difficulty == DefaultZero(difficultyProp)
        poolHashRate == DefaultZero(poolHashRateProp)
        estimatedSeconds == PendingBlock_estimatedSeconds(difficulty, poolHashRate)
        estimatedMinutes == FloorDiv(estimatedSeconds, Num(60))
        effortText == IF currentEffort.t = "null" THEN Returned(<<>>) ELSE toFixed(currentEffort, 1, tieUp)
    IN  [threw |-> effortText.threw,
         effortLabel |-> (IF effortText.text = <<>> THEN <<"0">> ELSE effortText.text) \o <<"%">>,
         estimatedSeconds |-> estimatedSeconds,
         eta |-> <<"~">> \o jsText(estimatedMinutes) \o <<"m ETA">>,
         glow |-> intensity]

RECURSIVE AddDigits(_, _, _)
\* the sum of two digit strings of one length, one digit longer
AddDigits(a, b, carry) ==
    IF a = <<>> THEN <<carry>>
    ELSE LET n == Len(a)
             t == a[n] + b[n] + carry
         IN  AddDigits(SubSeq(a, 1, n - 1), SubSeq(b, 1, n - 1), t \div 10) \o <<t % 10>>

\* a + b, where both are of one sign or one of them is 0
Add(a, b) ==
    IF IsZero(a) THEN b ELSE IF IsZero(b) THEN a ELSE
    LET places == Max(Len(a.f), Len(b.f))
        width == Max(Len(a.i), Len(b.i))
        total == AddDigits(Zeros(width - Len(a.i)) \o ScaledDigits(a, places),
                           Zeros(width - Len(b.i)) \o ScaledDigits(b, places), 0)
    IN  Number(a.neg, SubSeq(total, 1, width + 1), SubSeq(total, width + 2, Len(total)))

RECURSIVE SumOf(_)
\* reduce((acc, x) => acc + x, 0)
SumOf(xs) == IF xs = <<>> THEN Number(FALSE, <<>>, <<>>)
             ELSE Add(SumOf(SubSeq(xs, 1, Len(xs) - 1)), xs[Len(xs)])

QuotientDigits == 17

\* x / k, 0 <= k <= 10, and x = 0 where k = 0 (0 / 0 is NaN): the quotient to
\* QuotientDigits more decimals than x has, followed by a 1 when the division
\* does not end there, so that it rounds and compares as the quotient does
DivSmall(x, k) ==
    IF k = 0 THEN NaN ELSE
    LET q == LongDivision(x.i \o x.f \o Zeros(QuotientDigits), k, 0)
    IN  Number(x.neg, SubSeq(q, 1, Len(x.i)), SubSeq(q, Len(x.i) + 1, Len(q)))

ChainCardsShown == 6

ChainStatsSample == 10

\* the sample of the stats bar taken as blocks.slice(0, 11)
BlockchainVisual_chain_sample_eleven(blocks) ==
    IF IsSome(blocks) THEN SliceFirst(The(blocks), ChainStatsSample + 1) ELSE <<>>

\* blocks.slice(0, 10) behind the guard on blocks
BlockchainVisual_chain_sample(blocks) ==
    IF IsSome(blocks) THEN SliceFirst(The(blocks), ChainStatsSample) ELSE <<>>

\* the guard of the two averages taken as blocks alone
BlockchainVisual_chain_averaged_anyArray(blocks) == IsSome(blocks)

\* blocks && blocks.slice(0, 10).length > 0
BlockchainVisual_chain_averaged(blocks) == Len(BlockchainVisual_chain_sample(blocks)) > 0

\* the latest-height cell without the guard on the height: the height of the
\* block at index 0 of every non-empty sequence
BlockchainVisual_chain_latestHeight_anyHeight(blocks, tieUp) ==
    IF IsSome(blocks) /\ Len(The(blocks)) > 0
    THEN formatNumber_chain(The(blocks)[1].height, tieUp)
    ELSE Returned(<<"-">>)

\* blocks?.length && blocks[0].height ? formatNumber(blocks[0].height) : '-'
BlockchainVisual_chain_latestHeight(blocks, tieUp) ==
    IF IsSome(blocks) /\ Len(The(blocks)) > 0 /\ ~Falsy(The(blocks)[1].height)
    THEN formatNumber_chain(The(blocks)[1].height, tieUp)
    ELSE Returned(<<"-">>)

\* the full chain visualization at Date.now() = now seconds
BlockchainVisual_chain(blocks, currentEffortProp, networkDifficultyProp, poolHashRateProp, now, intensity, tieUp) ==
    LET currentEffort == DefaultZero(currentEffortProp)
        networkDifficulty == DefaultZero(networkDifficultyProp)
        poolHashRate == DefaultZero(poolHashRateProp)
        shown == IF IsSome(blocks) THEN SliceFirst(The(blocks), ChainCardsShown) ELSE <<>>
        cards == [k \in 1..Len(shown) |-> BlockCard(shown[k], k - 1, k - 1 = 0, now, tieUp)]
        sample == BlockchainVisual_chain_sample(blocks)
        count == Min(IF IsSome(blocks) THEN Len(The(blocks)) ELSE 0, ChainStatsSample)
        divides == BlockchainVisual_chain_averaged(blocks)
        height == BlockchainVisual_chain_latestHeight(blocks, tieUp)
        effort == IF divides
                  THEN toFixed(DivSmall(SumOf([k \in 1..Len(sample) |-> OrZero(sample[k].effort)]), count),
                               1, tieUp)
                  ELSE Returned(<<"0">>)
        reward == IF divides
                  THEN formatXMR_chain(DivSmall(SumOf([k \in 1..Len(sample) |-> OrZero(sample[k].value)]),
                                                count), tieUp)
                  ELSE Returned(<<"0">>)
        pending == PendingBlock(currentEffort, networkDifficulty, poolHashRate, intensity, tieUp)
    IN  [threw |-> (height.threw \/ effort.threw \/ reward.threw \/ pending.threw
                        \/ \E k \in 1..Len(cards) : cards[k].threw),
         cards |-> cards,
         pending |-> pending,
         latestHeight |-> height.text,
         avgEffort |-> effort.text \o <<"%">>,
         avgReward |-> reward.text,
         lastFound |-> (IF IsSome(blocks) /\ Len(The(blocks)) > 0
                        THEN formatTimeAgo(The(blocks)[1].ts, now) ELSE <<"-">>),
         divisor |-> (IF divides THEN Some(count) ELSE None)]

(***************************************************************************)
(* src/client/pages/Index.tsx: what the page shows.  An object of a        *)
(* response is None when absent and Some(record) otherwise; obj?.field is  *)
(* Leaf (a value) or Part (an object).                                     *)
(***************************************************************************)
Leaf(obj, field) == IF obj = None THEN Undefined ELSE The(obj)[field]

Part(obj, field) == IF obj = None THEN None ELSE The(obj)[field]

\* a + b of two whole numbers
Plus(a, b) == Num(DigitsNat(a.i) + DigitsNat(b.i))

\* Array.prototype.slice(-n)
SliceLast(arr, n) == SubSeq(arr, IF Len(arr) > n THEN Len(arr) - n + 1 ELSE 1, Len(arr))

\* new Date(ts).toLocaleTimeString([], {hour: '2-digit', minute: '2-digit'}) of
\* epoch milliseconds, locale and time zone fixed to 24-hour UTC: hh:mm
toLocaleTimeHM(ts) ==
    LET n == ToNumber(ts)
    IN  IF n.t # "number" THEN <<"Invalid Date">>
        ELSE LET s == DigitsNat(DivPow10(n, 3).i) % 86400
             IN  TwoDigits(s \div 3600) \o <<":">> \o TwoDigits((s % 3600) \div 60)

ChartPointsKept == 48

\* the derived series taken as the first 48 mapped points, slice(0, 48)
processedChartData_oldest(chartData) ==
    IF chartData = None THEN <<>>
    ELSE SliceFirst([k \in 1..Len(The(chartData)) |->
                         [time |-> toLocaleTimeHM(The(chartData)[k].ts),
                          pool |-> DivPow10(The(chartData)[k].hs, 6)]],
                    ChartPointsKept)

\* chartData?.map(point => ({time, pool: point.hs / 1e6})).slice(-48) || []
processedChartData(chartData) ==
    IF chartData = None THEN <<>>
    ELSE SliceLast([k \in 1..Len(The(chartData)) |->
                        [time |-> toLocaleTimeHM(The(chartData)[k].ts),
                         pool |-> DivPow10(The(chartData)[k].hs, 6)]],
                   ChartPointsKept)

\* the chart section: the area chart over the series, or the skeleton
ChartSection(series) ==
    IF Len(series) > 0 THEN [series |-> series, placeholder |-> FALSE]
    ELSE [series |-> <<>>, placeholder |-> TRUE]

\* a StatCard: the skeleton while loading, the value otherwise
StatCard(value, loading) ==
    [threw |-> value.threw, value |-> IF loading THEN <<>> ELSE value.text, skeleton |-> loading]

\* {hash?.slice(0, 8)}...{hash?.slice(-8)}
HashPreview(hash) ==
    (IF hash = None THEN <<>> ELSE SliceTo(The(hash), 8)) \o <<"...">>
        \o (IF hash = None THEN <<>> ELSE SliceLast(The(hash), 8))

\* {value || fallback}, rendered
OrDefault(x, fallback) == IF Falsy(x) THEN fallback ELSE jsText(x)

\* Math.abs(x)
Abs(x) == LET v == ToNumber(x) IN IF v.t = "number" THEN [v EXCEPT !.neg = FALSE] ELSE v

\* {subValue && !loading && ...}: the line under a StatCard's value, with the
\* glyph of its trend
StatCard_subLine(subValue, trend, loading) ==
    IF subValue # <<>> /\ ~loading
    THEN Some([text |-> subValue,
               glyph |-> CASE trend = "up" -> "TrendingUp" [] trend = "down" -> "TrendingDown"
                           [] OTHER -> "none",
               colour |-> CASE trend = "up" -> "text-green-400" [] trend = "down" -> "text-red-400"
                            [] OTHER -> "none"])
    ELSE None

\* the XMR/USD StatCard: its subValue and trend from market?.percent_change_24h
MoneroPool_priceCard(market, isLoading, tieUp) ==
    LET change == OrZero(Leaf(market, "percent_change_24h"))
        text == toFixed(change, 2, tieUp)
    IN  [threw |-> text.threw,
         sub |-> StatCard_subLine((IF Gt(change, 0) THEN <<"+">> ELSE <<>>) \o text.text \o <<"%">>,
                                  IF Gt(change, 0) THEN "up" ELSE "down", isLoading)]

\* isPositive of a MarketItem taken as change >= 0
MarketItem_isPositive_orZero(change) == change.t = "number" /\ ~change.neg

\* change && change > 0
MarketItem_isPositive(change) == ~Falsy(change) /\ Gt(change, 0)

\* a MarketItem: its value, and for a change that is not undefined the change
\* indicator, whose arrow is "up" for the upward and "down" for the downward
\* arrow character
MarketItem(value, change, tieUp) ==
    IF change.t = "undefined" THEN [threw |-> FALSE, value |-> value, change |-> None]
    ELSE LET isPositive == MarketItem_isPositive(change)
             text == toFixed(Abs(change), 2, tieUp)
         IN  [threw |-> text.threw,
              value |-> value,
              change |-> Some([text |-> text.text \o <<"%">>,
                               arrow |-> IF isPositive THEN "up" ELSE "down",
                               colour |-> IF isPositive THEN "text-green-400" ELSE "text-red-400"])]

\* the Market Data panel: skeletons while loading, else its rows, of which
\* XMR/USD and 7 Day are given a change (the euro sign is written EUR)
MoneroPool_marketPanel(market, isLoading, tieUp) ==
    IF isLoading THEN [threw |-> FALSE, rows |-> None]
    ELSE LET usd == toFixed(OrZero(Leaf(market, "price_usd")), 2, tieUp)
             eur == toFixed(OrZero(Leaf(market, "price_eur")), 2, tieUp)
             rows == [usd |-> MarketItem(<<"$">> \o usd.text, Leaf(market, "percent_change_24h"), tieUp),
                      eur |-> MarketItem(<<"EUR">> \o eur.text, Undefined, tieUp),
                      week |-> MarketItem(<<>>, Leaf(market, "percent_change_7d"), tieUp)]
         IN  [threw |-> usd.threw \/ eur.threw \/ rows.usd.threw \/ rows.week.threw,
              rows |-> Some(rows)]

EffortMeterCap == 200

\* the text class of an EffortMeter's colour
EffortMeter_text(color) ==
    CASE color = "cyan" -> "text-cyan-400"
      [] color = "pink" -> "text-pink-400"
      [] color = "orange" -> "text-orange-400"
      [] color = "green" -> "text-green-400"

\* percentage of an EffortMeter taken as Math.min(value || 0, 100)
EffortMeter_percentage_hundred(value) == MinHundred(OrZero(value))

\* Math.min(value || 0, 200)
EffortMeter_percentage(value) ==
    IF Gt(OrZero(value), EffortMeterCap) THEN Num(EffortMeterCap) ELSE OrZero(value)

\* an EffortMeter: the printed percentage, its class, and the bar's width
EffortMeter(value, color, tieUp) ==
    LET percentage == EffortMeter_percentage(value)
        isOver100 == Gt(percentage, 100)
        text == toFixed(OrZero(value), 2, tieUp)
    IN  [threw |-> text.threw,
         width |-> jsText(MinHundred(percentage)) \o <<"%">>,
         label |-> text.text \o <<"%">>,
         labelClass |-> IF isOver100 THEN "text-orange-400 animate-pulse" ELSE EffortMeter_text(color)]

ErrorMessage == <<"Failed to load pool data">>

\* if (error) on the result of the pool-statistics useQuery, taken to gate on
\* an error only while the query holds no data
MoneroPool_errorGate_noData(stats) == stats.error # "null" /\ stats.data = None

\* if (error) on the result of the pool-statistics useQuery
MoneroPool_errorGate(stats) == stats.error # "null"

\* The page for the three query results, the clock state and the way decimal
\* ties round: the error view, or the dashboard's sections.
MoneroPool(stats, chartData, blocksData, clock, pulsing, tieUp) ==
    LET poolData == stats.data
        isLoading == stats.isLoading
        pool == Part(Part(poolData, "pool_statistics"), "collective")
        solo == Part(Part(poolData, "pool_statistics"), "solo")
        network == Part(poolData, "network_statistics")
        market == Part(poolData, "market")
        config == Part(poolData, "config")
        price == toFixed(OrZero(Leaf(market, "price_usd")), 2, tieUp)
    IN  IF MoneroPool_errorGate(stats)
        THEN [threw |-> FALSE, network |-> None, config |-> None, view |-> "error",
              message |-> ErrorMessage, buttons |-> {"Retry"}, header |-> None,
              topStats |-> None, feed |-> None, chart |-> None]
        ELSE LET topStats ==
                     [poolHash |-> StatCard(formatHashRate(Leaf(pool, "hashRate"), tieUp), isLoading),
                      price |-> StatCard([text |-> <<"$">> \o price.text, threw |-> price.threw], isLoading),
                      miners |-> StatCard(formatNumber(Plus(OrZero(Leaf(pool, "miners")),
                                                            OrZero(Leaf(solo, "miners"))), tieUp),
                                          isLoading)]
                 feed == BlockchainVisual(blocksData, Leaf(pool, "currentEffort"),
                                          Leaf(network, "difficulty"), Leaf(pool, "hashRate"), tieUp)
                 height == formatNumber(Leaf(network, "height"), tieUp)
                 reward == formatXMR(Leaf(network, "value"), tieUp)
                 lastValue == formatXMR(Leaf(Part(pool, "lastFoundBlock"), "value"), tieUp)
                 minimum == formatXMR(Leaf(Part(config, "payout"), "minimum"), tieUp)
                 online == formatNumber(Leaf(poolData, "online"), tieUp)
                 networkPanel ==
                     IF isLoading
                     THEN [hash |-> <<>>, reward |-> <<>>, height |-> <<>>, skeleton |-> TRUE,
                           lastBlockHash |-> <<>>, lastBlockValue |-> <<>>]
                     ELSE [hash |-> HashPreview(Part(network, "hash")),
                           reward |-> reward.text \o <<" XMR">>,
                           height |-> height.text,
                           skeleton |-> FALSE,
                           lastBlockHash |-> HashPreview(Part(Part(pool, "lastFoundBlock"), "hash")),
                           lastBlockValue |-> lastValue.text \o <<" XMR">>]
                 configPanel ==
                     [fee |-> OrDefault(Leaf(config, "pplns_fee"), <<"0", ".", "9">>) \o <<"%">>,
                      online |-> online.text,
                      minPayout |-> minimum.text \o <<" XMR">>,
                      maturity |-> OrDefault(Leaf(config, "maturity_depth"), <<"3", "0">>)
                                       \o <<" blocks">>]
                 raised ==
                     \/ price.threw \/ topStats.poolHash.threw \/ topStats.miners.threw
                     \/ feed.threw \/ height.threw \/ reward.threw \/ lastValue.threw
                     \/ minimum.threw \/ online.threw
             IN  [threw |-> raised,
                  network |-> Some(networkPanel),
                  config |-> Some(configPanel),
                  view |-> "dashboard",
                  message |-> <<>>,
                  buttons |-> {"Refresh"},
                  header |-> Some([pulse |-> pulsing, clock |-> clock, spinning |-> isLoading]),
                  topStats |-> Some(topStats),
                  feed |-> Some(feed),
                  chart |-> Some(ChartSection(processedChartData(chartData)))]

(***************************************************************************)
(* Responses of the three endpoints.  PoolStats(absent) is a pool-stats    *)
(* object without the objects named in absent and, with "leaves" in it,    *)
(* without any of the values.                                              *)
(***************************************************************************)
StatsParts ==
    {"pool_statistics", "collective", "solo", "lastFoundBlock", "network_statistics",
     "market", "config", "payout", "leaves"}

Value(absent, x) == IF "leaves" \in absent THEN Undefined ELSE x

Object(absent, name, record) == IF name \in absent THEN None ELSE Some(record)

Segment(absent, miners) ==
    [currentEffort |-> Value(absent, Scaled(<<1, 5, 0, 5>>, -1)),
     miners |-> Value(absent, Num(miners)),
     hashRate |-> Value(absent, Scaled(<<1, 5>>, 8)),
     overallEffort |-> Value(absent, Num(99)),
     totalBlocksFound |-> Value(absent, Num(12345)),
     orphans |-> Value(absent, Num(7)),
     pplnsWindowTime |-> Value(absent, Num(3725)),
     lastFoundBlock |-> Object(absent, "lastFoundBlock",
                               [hash |-> IF "leaves" \in absent THEN None
                                         ELSE Some(<<"0", "1", "2", "3", "4", "5", "6", "7", "8", "9", "a">>),
                                height |-> Value(absent, Num(3200001)),
                                value |-> Value(absent, Scaled(<<6, 1>>, 10))])]

PoolStats(absent) ==
    [market |-> Object(absent, "market",
                       [price_usd |-> Value(absent, Scaled(<<1, 5, 0, 2, 5>>, -2)),
                        percent_change_24h |-> Value(absent, Scaled(<<1, 5>>, -1))]),
     config |-> Object(absent, "config",
                       [pplns_fee |-> Value(absent, Num(1)),
                        payout |-> Object(absent, "payout", [minimum |-> Value(absent, Scaled(<<1>>, 11))]),
                        maturity_depth |-> Value(absent, Num(60))]),
     online |-> Value(absent, Num(321)),
     pool_statistics |-> Object(absent, "pool_statistics",
                                [solo |-> Object(absent, "solo", Segment(absent, 34)),
                                 collective |-> Object(absent, "collective", Segment(absent, 1200))]),
     network_statistics |-> Object(absent, "network_statistics",
                                   [hash |-> IF "leaves" \in absent THEN None
                                             ELSE Some(<<"f", "e", "d", "c", "b", "a", "9", "8", "7">>),
                                    height |-> Value(absent, Num(3200002)),
                                    value |-> Value(absent, Scaled(<<6>>, 11)),
                                    difficulty |-> Value(absent, Scaled(<<3, 6>>, 10))])]

FeedFields == {"hash", "height", "ts", "reward", "fee"}

Block(h, absent) ==
    [hash |-> IF "hash" \in absent THEN None ELSE Some(<<"b", DigitChar[h + 1]>>),
     ts |-> IF "ts" \in absent THEN Undefined ELSE Num(1700000000 + 3661 * h),
     reward |-> IF "reward" \in absent THEN Undefined ELSE Scaled(<<6, h>>, 10),
     fee |-> IF "fee" \in absent THEN Undefined ELSE Scaled(<<h>>, 8),
     height |-> IF "height" \in absent THEN Undefined ELSE Num(3200000 + h),
     effort |-> IF "effort" \in absent THEN Undefined ELSE Num(40 * h),
     value |-> IF "value" \in absent THEN Undefined ELSE Scaled(<<6, h>>, 10),
     solo |-> IF "solo" \in absent THEN None ELSE Some(h % 2 = 0)]

ChartPoint(k, absent) ==
    [ts |-> IF "ts" \in absent THEN Undefined ELSE Scaled(<<1, 7>>, 11),
     hs |-> IF "hs" \in absent THEN Undefined ELSE Scaled(<<k>>, 8)]

(***************************************************************************)
(* src/client/pages/Index.tsx: the three queries.                          *)
(*                                                                         *)
(* Each useQuery call passes queryKey, queryFn and refetchInterval: 30000. *)
(* The rest is @tanstack/react-query with its defaults, as its query       *)
(* reducer, retryer and observer define them: a failed attempt is retried  *)
(* up to 3 times after a delay; starting a fetch clears the error only     *)
(* when the query holds no data; an error keeps the data; the observer     *)
(* re-arms its refetch interval on every update of the query; refetch()    *)
(* replaces a fetch in flight when the query holds data and joins it       *)
(* otherwise; when the last observer goes, pending retries are cancelled   *)
(* but a request in flight still settles into the cache.                   *)
(***************************************************************************)
Queries == {"poolStats", "hashChart", "blocks"}

RefetchInterval == 30000

ClockInterval == 1000

DefaultRetry == 3

\* What a request can come back with: no response at all (fetch rejects), a
\* response with a non-success status, a success status with a body that is
\* not JSON, or a success status with a JSON body.
NetworkFailure == [network |-> FALSE, ok |-> FALSE, json |-> None]

HttpFailure == [network |-> TRUE, ok |-> FALSE, json |-> None]

NotJson == [network |-> TRUE, ok |-> TRUE, json |-> None]

Success(body) == [network |-> TRUE, ok |-> TRUE, json |-> Some(body)]

\* The ways a request of q is let fail.  Which way it was shows in the error
\* the query holds and nowhere on the page.
StatsFailures == {NetworkFailure, HttpFailure}

Failures(q) ==
    CASE q = "poolStats" -> StatsFailures
      [] q = "hashChart" -> {NotJson}
      [] q = "blocks" -> {HttpFailure}

Bodies(q) ==
    CASE q = "poolStats" -> {PoolStats({})}
      [] q = "hashChart" -> {<<ChartPoint(1, {}), ChartPoint(2, {})>>}
      [] q = "blocks" -> {<<Block(1, {}), Block(2, {})>>}

Resolved(value) == [value |-> Some(value), error |-> "null", rejected |-> FALSE]

Rejected(error) == [value |-> None, error |-> error, rejected |-> TRUE]

\* await fetch(url); if (!response.ok) throw new Error(message); return response.json()
FetchJson(response, message) ==
    IF ~response.network THEN Rejected("TypeError: Failed to fetch")
    ELSE IF ~response.ok THEN Rejected(message)
    ELSE IF response.json = None THEN Rejected("SyntaxError")
    ELSE Resolved(The(response.json))

fetchPoolStats(response) == FetchJson(response, "Failed to fetch pool stats")

fetchHashrateChart(response) == FetchJson(response, "Failed to fetch chart data")

fetchBlocks(response) == FetchJson(response, "Failed to fetch blocks")

queryFn(q, response) ==
    CASE q = "poolStats" -> fetchPoolStats(response)
      [] q = "hashChart" -> fetchHashrateChart(response)
      [] q = "blocks" -> fetchBlocks(response)

\* the state of a query when its observer has mounted and issued the first fetch
InitialQuery ==
    [error |-> "null", data |-> None, status |-> "pending", fetchStatus |-> "fetching",
     failureCount |-> 0, failureReason |-> "null", retryWait |-> FALSE]

\* the query reducer, action 'fetch'
FetchStarted(s) ==
    [s EXCEPT !.fetchStatus = "fetching", !.failureCount = 0, !.failureReason = "null",
              !.retryWait = FALSE,
              !.error = IF s.data = None THEN "null" ELSE @,
              !.status = IF s.data = None THEN "pending" ELSE @]

\* the query reducer, action 'success', with the error and the status kept
FetchSucceeded_keepsError(s, value) ==
    [s EXCEPT !.data = Some(value), !.fetchStatus = "idle", !.failureCount = 0,
              !.failureReason = "null", !.retryWait = FALSE]

\* the query reducer, action 'success'
FetchSucceeded(s, value) ==
    [s EXCEPT !.data = Some(value), !.status = "success", !.error = "null",
              !.fetchStatus = "idle", !.failureCount = 0, !.failureReason = "null",
              !.retryWait = FALSE]

\* the query reducer, action 'failed': the attempt failed and a retry is pending
AttemptFailed(s, error) ==
    [s EXCEPT !.failureCount = @ + 1, !.failureReason = error, !.retryWait = TRUE]

\* the query reducer, action 'error', with the data dropped
FetchErrored_dropsData(s, error) ==
    [s EXCEPT !.data = None, !.error = error, !.status = "error", !.fetchStatus = "idle",
              !.failureCount = @ + 1, !.failureReason = error, !.retryWait = FALSE]

\* the query reducer, action 'error': the data of an earlier success stays
FetchErrored(s, error) ==
    [s EXCEPT !.error = error, !.status = "error", !.fetchStatus = "idle",
              !.failureCount = @ + 1, !.failureReason = error, !.retryWait = FALSE]

\* no retry option is passed, as if retry: false had been
shouldRetry_never(failureCount) == FALSE

\* the retryer: no retry option is passed, so a failed attempt is retried
\* while fewer than 3 attempts have failed
shouldRetry(failureCount) == failureCount < DefaultRetry

\* refetchInterval as a function that stops polling a query in its error state
computeRefetchInterval_stopsOnError(s) == IF s.status = "error" THEN 0 ELSE RefetchInterval

\* the observer's interval for the updated query: the option refetchInterval: 30000
computeRefetchInterval(s) == RefetchInterval

\* what useQuery returns to the page
QueryResult(s) ==
    [isLoading |-> (s.status = "pending" /\ s.fetchStatus = "fetching"), error |-> s.error,
     data |-> s.data]

MaxTime == 2

PageInit ==
    /\ mounted = TRUE
    /\ query = [q \in Queries |-> InitialQuery]
    /\ refetchIntervalId = [q \in Queries |-> computeRefetchInterval(InitialQuery)]
    /\ clockTimer = ClockInterval
    /\ time = 0
    /\ pulse = FALSE
    /\ lastIssue = "mount"

\* no PendingBlock is mounted
PendingIdle ==
    /\ pendingMounted = FALSE
    /\ pulseTimer = 0
    /\ pulseIntensity = 0

Init ==
    /\ PageInit
    /\ PendingIdle
    /\ call = None
    /\ result = None

\* the query moves to state s and the fetches of the other queries are dropped
Update_cancelsOthers(q, s) ==
    /\ query' = [r \in Queries |-> IF r = q THEN s ELSE [query[r] EXCEPT !.fetchStatus = "idle"]]
    /\ refetchIntervalId' =
            IF mounted THEN [refetchIntervalId EXCEPT ![q] = computeRefetchInterval(s)]
            ELSE refetchIntervalId

\* the query moves to state s; its observer, if mounted, re-arms the interval
Update(q, s) ==
    /\ query' = [query EXCEPT ![q] = s]
    /\ refetchIntervalId' =
            IF mounted THEN [refetchIntervalId EXCEPT ![q] = computeRefetchInterval(s)]
            ELSE refetchIntervalId

\* a new fetch of q starts
Issue(q, by) ==
    /\ Update(q, FetchStarted(query[q]))
    /\ lastIssue' = by

InFlight(q) == query[q].fetchStatus = "fetching" /\ ~query[q].retryWait

\* the request of q comes back with a JSON body
FetchSucceeds(q, body) ==
    /\ InFlight(q)
    /\ LET r == queryFn(q, Success(body))
       IN  Update(q, FetchSucceeded(query[q], The(r.value)))
    /\ UNCHANGED <<mounted, clockTimer, time, pulse, lastIssue, call, result, pendingVars>>

\* the request of q fails: queryFn rejects, and the retryer retries or gives up
FetchFails(q, response) ==
    /\ InFlight(q)
    /\ LET r == queryFn(q, response)
       IN  /\ r.rejected
           /\ IF mounted /\ shouldRetry(query[q].failureCount)
              THEN Update(q, AttemptFailed(query[q], r.error))
              ELSE Update(q, FetchErrored(query[q], r.error))
    /\ UNCHANGED <<mounted, clockTimer, time, pulse, lastIssue, call, result, pendingVars>>

\* the retry delay of q runs out: the next attempt goes out, unless the retry
\* was cancelled by the unmount, which rejects with the last failure
RetryDelayEnds(q) ==
    /\ query[q].retryWait
    /\ IF mounted
       THEN Update(q, [query[q] EXCEPT !.retryWait = FALSE])
       ELSE Update(q, FetchErrored(query[q], query[q].failureReason))
    /\ UNCHANGED <<mounted, clockTimer, time, pulse, lastIssue, call, result, pendingVars>>

\* the refetch interval of q fires: a fetch goes out unless one is in flight
PollTick(q) ==
    /\ refetchIntervalId[q] > 0
    /\ IF query[q].fetchStatus = "idle"
       THEN Issue(q, "interval")
       ELSE UNCHANGED <<query, refetchIntervalId, lastIssue>>
    /\ UNCHANGED <<mounted, clockTimer, time, pulse, call, result, pendingVars>>

\* refetch() as a refetch of every query of the page
refetch_all ==
    /\ query' = [q \in Queries |->
                    IF query[q].fetchStatus = "fetching" /\ query[q].data = None
                    THEN query[q] ELSE FetchStarted(query[q])]
    /\ refetchIntervalId' = [q \in Queries |-> computeRefetchInterval(query'[q])]
    /\ lastIssue' = "refetch"

\* refetch() of the pool-statistics query, the only refetch the page holds
refetch ==
    IF query["poolStats"].fetchStatus = "fetching" /\ query["poolStats"].data = None
    THEN UNCHANGED <<query, refetchIntervalId, lastIssue>>
    ELSE Issue("poolStats", "refetch")

\* the Retry button of the error view: onClick={() => refetch()}
RetryClick ==
    /\ mounted
    /\ MoneroPool_errorGate(QueryResult(query["poolStats"]))
    /\ refetch
    /\ UNCHANGED <<mounted, clockTimer, time, pulse, call, result, pendingVars>>

\* the refresh button of the header: onClick={() => refetch()}
RefreshClick ==
    /\ mounted
    /\ ~MoneroPool_errorGate(QueryResult(query["poolStats"]))
    /\ refetch
    /\ UNCHANGED <<mounted, clockTimer, time, pulse, call, result, pendingVars>>

\* the clock interval fires, with setPulse(true) for setPulse(p => !p)
ClockTick_setsPulse ==
    /\ clockTimer > 0
    /\ time < MaxTime
    /\ time' = time + 1
    /\ pulse' = TRUE
    /\ UNCHANGED <<mounted, query, refetchIntervalId, clockTimer, lastIssue, call, result, pendingVars>>

\* the clock interval fires: setTime(new Date()); setPulse(p => !p)
ClockTick ==
    /\ clockTimer > 0
    /\ time < MaxTime
    /\ time' = time + 1
    /\ pulse' = ~pulse
    /\ UNCHANGED <<mounted, query, refetchIntervalId, clockTimer, lastIssue, call, result, pendingVars>>

\* the page unmounts and leaves its intervals armed
Unmount_keepsTimers ==
    /\ mounted
    /\ mounted' = FALSE
    /\ UNCHANGED <<query, refetchIntervalId, clockTimer, time, pulse, lastIssue, call, result,
                   pendingVars>>

\* the page unmounts: the effect's cleanup clears the clock interval and the
\* observers clear their refetch intervals
Unmount ==
    /\ mounted
    /\ mounted' = FALSE
    /\ clockTimer' = 0
    /\ refetchIntervalId' = [q \in Queries |-> 0]
    /\ UNCHANGED <<query, time, pulse, lastIssue, call, result, pendingVars>>

Next ==
    \/ \E q \in Queries : \E body \in Bodies(q) : FetchSucceeds(q, body)
    \/ \E q \in Queries : \E response \in Failures(q) : FetchFails(q, response)
    \/ \E q \in Queries : RetryDelayEnds(q)
    \/ \E q \in Queries : PollTick(q)
    \/ RetryClick
    \/ RefreshClick
    \/ ClockTick
    \/ Unmount

Spec == Init /\ [][Next]_vars

\* the page with its clock left out: the steps of the three queries
QueryNext ==
    \/ \E q \in Queries : \E body \in Bodies(q) : FetchSucceeds(q, body)
    \/ \E q \in Queries : \E response \in Failures(q) : FetchFails(q, response)
    \/ \E q \in Queries : RetryDelayEnds(q)
    \/ \E q \in Queries : PollTick(q)
    \/ RetryClick
    \/ RefreshClick
    \/ Unmount

QuerySpec == Init /\ [][QueryNext]_vars

\* the page with the pool-statistics query alone moving; the other two
\* queries stay as the mount left them
StatsNext ==
    \/ \E body \in Bodies("poolStats") : FetchSucceeds("poolStats", body)
    \/ \E response \in Failures("poolStats") : FetchFails("poolStats", response)
    \/ RetryDelayEnds("poolStats")
    \/ PollTick("poolStats")
    \/ RetryClick
    \/ RefreshClick
    \/ Unmount

\* the pool-statistics query under the scheduling of its timers: an armed
\* refetch interval fires and a retry delay runs out; and under the condition
\* that fetches eventually succeed: a fetch that is in flight again and again
\* succeeds at some time
FairSpec ==
    /\ Init
    /\ [][StatsNext]_vars
    /\ WF_vars(PollTick("poolStats"))
    /\ WF_vars(RetryDelayEnds("poolStats"))
    /\ SF_vars(\E body \in Bodies("poolStats") : FetchSucceeds("poolStats", body))

(***************************************************************************)
(* The lifecycle of the two components that own a timer: the page, and the *)
(* PendingBlock of the full chain visualization, which the page does not   *)
(* render and which is mounted on its own.                                 *)
(***************************************************************************)
\* Math.random(), in tenths
RandomTenths == {1, 5, 9}

\* the page is not mounted: its queries have no observer and no fetch
PageAbsent ==
    /\ mounted = FALSE
    /\ query = [q \in Queries |-> [InitialQuery EXCEPT !.fetchStatus = "idle"]]
    /\ refetchIntervalId = [q \in Queries |-> 0]
    /\ clockTimer = 0
    /\ time = 0
    /\ pulse = FALSE
    /\ lastIssue = "mount"

\* a PendingBlock after its mount: useState(0), and the effect's setInterval
PendingInit ==
    /\ pendingMounted = TRUE
    /\ pulseTimer = PulseInterval
    /\ pulseIntensity = 0

\* the PendingBlock's interval fires: setPulseIntensity(Math.random())
PulseTick ==
    /\ pulseTimer > 0
    /\ \E r \in RandomTenths : pulseIntensity' = r
    /\ UNCHANGED <<pageVars, call, result, pendingMounted, pulseTimer>>

\* the PendingBlock unmounts: the effect's cleanup clears its interval
PendingUnmount ==
    /\ pendingMounted
    /\ pendingMounted' = FALSE
    /\ pulseTimer' = 0
    /\ UNCHANGED <<pageVars, call, result, pulseIntensity>>

LifeInit ==
    /\ \/ PageInit /\ PendingIdle
       \/ PageAbsent /\ PendingInit
    /\ call = None
    /\ result = None

LifeNext ==
    \/ Next
    \/ PulseTick
    \/ PendingUnmount

LifeSpec == LifeInit /\ [][LifeNext]_vars

\* what is on the screen
View(tieUp) ==
    MoneroPool(QueryResult(query["poolStats"]), query["hashChart"].data, query["blocks"].data,
               time, pulse, tieUp)

(***************************************************************************)
(* Inputs of the pure functions.  A number is a run of significant digits  *)
(* times a power of ten, head * 10^e with -MaxFrac <= e <= MaxPad, which   *)
(* reaches every unit threshold from below, at and above, and the decimal  *)
(* ties of toFixed.                                                        *)
(***************************************************************************)
MaxHead == 6

MaxPad == 12

MaxFrac == 3

HeadDigits == {0, 5, 9}

LeadDigits == {1, 5, 9}

Heads ==
    UNION {{h \in [1..n -> HeadDigits \cup LeadDigits] :
                h[1] \in LeadDigits /\ \A k \in 2..n : h[k] \in HeadDigits} : n \in 1..MaxHead}

NumberInputs ==
    {Scaled(h, e) : h \in Heads, e \in (0 - MaxFrac)..MaxPad}
        \cup {Negated(Scaled(h, e)) : h \in {g \in Heads : Len(g) = 1}, e \in (0 - MaxFrac)..MaxPad}

FalsyInputs == {Undefined, Null, NaN, Number(FALSE, <<>>, <<>>)}

FormatterInputs == NumberInputs \cup FalsyInputs

Formatters == {"formatHashRate", "formatNumber", "formatXMR", "formatXMR_chain", "formatNumber_chain"}

FormatterCalls == [tieUp : BOOLEAN, fn : Formatters, arg : FormatterInputs]

(***************************************************************************)
(* Blocks as the blocks endpoint may send them: block h with the fields in *)
(* absent left out.  The arrays are every sequence of up to MaxBlocks      *)
(* blocks drawn from three distinguishable ones, and every one-block array *)
(* with any subset of the fields the feed reads left out.                  *)
(***************************************************************************)
MaxBlocks == 6

BlockPool == {Block(1, {}), Block(2, {}), Block(3, {"reward", "ts"})}

BlockArrays ==
    UNION {[1..n -> BlockPool] : n \in 0..MaxBlocks}
        \cup {<<Block(4, absent)>> : absent \in SUBSET FeedFields}

FeedProps ==
    [blocks : {None} \cup {Some(a) : a \in BlockArrays},
     currentEffort : {Undefined, Num(42)},
     networkDifficulty : {Undefined},
     poolHashRate : {Num(1500000)}]

MeterInputs ==
    {Undefined, Null, NaN, Num(0), Num(42), Scaled(<<9, 9, 9, 9, 5>>, -3), Num(100),
     Scaled(<<1, 0, 0, 0, 0, 4>>, -3), Scaled(<<1, 5, 0, 5>>, -1), Num(200),
     Scaled(<<2, 5, 0, 7, 5>>, -2), Negated(Num(5))}

\* the feed of no blocks at each effort
FeedEffortProps ==
    [blocks : {Some(<<>>)}, currentEffort : MeterInputs, networkDifficulty : {Undefined},
     poolHashRate : {Num(1500000)}]

MeterCalls ==
    [tieUp : BOOLEAN, fn : {"EffortMeter"},
     arg : [value : MeterInputs, color : {"cyan", "pink", "orange", "green"}]]

FeedCalls == [tieUp : {TRUE}, fn : {"BlockchainVisual"}, arg : FeedProps \cup FeedEffortProps]

\* The page for successful responses: a pool-stats object with any set of its
\* parts absent, a chart point and a block with any set of their fields absent.
PageProps ==
    {[chartData |-> Some(<<ChartPoint(1, {}), ChartPoint(2, {})>>),
      blocksData |-> Some(<<Block(1, {}), Block(2, {})>>),
      poolData |-> Some(PoolStats(absent))] : absent \in SUBSET StatsParts}
    \cup {[chartData |-> Some(<<ChartPoint(1, absent)>>),
           blocksData |-> Some(<<Block(1, {})>>),
           poolData |-> Some(PoolStats({}))] : absent \in SUBSET {"ts", "hs"}}
    \cup {[chartData |-> Some(<<ChartPoint(1, {})>>),
           blocksData |-> Some(<<Block(4, absent)>>),
           poolData |-> Some(PoolStats({}))] : absent \in SUBSET FeedFields}

FeeInputs == {Undefined, Num(0), Scaled(<<9>>, -1), Num(1), Scaled(<<2, 5>>, -1)}

DepthInputs == {Undefined, Num(0), Num(30), Num(60)}

MinimumInputs == {Undefined, Num(0), Scaled(<<1>>, 11)}

\* the page for a pool-stats response with each field of config reported,
\* reported as 0, or absent
ConfigProps ==
    {[chartData |-> Some(<<ChartPoint(1, {})>>),
      blocksData |-> Some(<<Block(1, {})>>),
      poolData |-> Some([PoolStats({}) EXCEPT
                            !.config = Some([pplns_fee |-> fee,
                                             payout |-> Some([minimum |-> minimum]),
                                             maturity_depth |-> depth])])] :
        fee \in FeeInputs, depth \in DepthInputs, minimum \in MinimumInputs}

PageCalls == [tieUp : {TRUE}, fn : {"MoneroPool"}, arg : PageProps \cup ConfigProps]

(***************************************************************************)
(* The full chain visualization: every sequence of up to MaxChainBlocks    *)
(* blocks drawn from two, one of them without effort and value; a block    *)
(* of every effort around the tier boundaries; the blocks of efforts 10,   *)
(* 20, 30 and values 1, 2, 3 XMR.  The pending block: difficulties and     *)
(* hash rates as whole numbers, absent, 0, NaN and negative.               *)
(***************************************************************************)
MaxChainBlocks == 11

ChainPool == {Block(1, {}), Block(2, {"effort"})}

EffortInputs ==
    {Undefined, Null, NaN, Num(0), Negated(Num(5)), Scaled(<<4, 9, 9, 9, 9>>, -3), Num(50),
     Scaled(<<9, 9, 9, 9, 9>>, -3), Num(100), Scaled(<<1, 4, 9, 9, 9, 9>>, -3), Num(150),
     Scaled(<<1, 5, 0, 0, 5>>, -2), Num(1000)}

EffortBlock(e) == [Block(1, {}) EXCEPT !.effort = e]

ExampleBlocks ==
    <<[Block(1, {}) EXCEPT !.effort = Num(10), !.value = Scaled(<<1>>, 12)],
      [Block(2, {}) EXCEPT !.effort = Num(20), !.value = Scaled(<<2>>, 12)],
      [Block(3, {}) EXCEPT !.effort = Num(30), !.value = Scaled(<<3>>, 12)]>>

HeightInputs == {Undefined, Null, NaN, Num(0), Num(1), Num(3200001)}

HeightBlock(h) == [Block(1, {}) EXCEPT !.height = h]

ChainArrays ==
    UNION {[1..n -> ChainPool] : n \in 0..MaxChainBlocks}
        \cup {<<EffortBlock(e)>> : e \in EffortInputs}
        \cup {<<Block(2, {"effort", "value"})>>, ExampleBlocks}
        \cup {<<HeightBlock(h)>> : h \in HeightInputs}
        \cup {<<HeightBlock(h), Block(2, {})>> : h \in HeightInputs}
        \cup {<<Block(1, {"ts"})>>}

NowInputs == {1700003691, 1700007661}

ChainProps ==
    [blocks : {None} \cup {Some(a) : a \in ChainArrays},
     currentEffort : {Scaled(<<1, 0, 5, 2, 5>>, -2)},
     networkDifficulty : {Num(600)},
     poolHashRate : {Num(10)}]

ChainCalls == [tieUp : BOOLEAN, now : NowInputs, fn : {"BlockchainVisual_chain"}, arg : ChainProps]

Difficulties ==
    {Undefined, Null, NaN, Num(0), Num(59), Num(599), Num(600), Num(7199), Scaled(<<3, 6>>, 10),
     Negated(Num(600))}

HashRates ==
    {Undefined, Null, NaN, Num(0), Num(7), Scaled(<<7, 5>>, -1), Num(10), Scaled(<<1, 5>>, 8),
     Negated(Num(10))}

PendingProps == [currentEffort : {Undefined, Scaled(<<1, 0, 5, 2, 5>>, -2)}, poolHashRate : HashRates, difficulty : Difficulties]

PendingCalls == [tieUp : {TRUE}, fn : {"PendingBlock"}, arg : PendingProps]

MaxChartPoints == 100

\* the raw point of minute k: ts in epoch milliseconds, hs in H/s
RawPoint(k) == [ts |-> Scaled(NatDigits(170000000 + 6 * k), 4), hs |-> Num(1234567 * k)]

RawSeries(n) == [k \in 1..n |-> RawPoint(k)]

ChartCalls ==
    [tieUp : {TRUE}, fn : {"processedChartData"},
     arg : [chartData : {None} \cup {Some(RawSeries(n)) : n \in 0..MaxChartPoints}]]

ChangeInputs ==
    {Undefined, Null, NaN, Num(0), Scaled(<<4>>, -3), Scaled(<<1, 5>>, -1), Num(100),
     Negated(Scaled(<<4>>, -3)), Negated(Scaled(<<1, 5>>, -1))}

Markets ==
    [price_usd : {Scaled(<<1, 5, 0, 2, 5>>, -2)}, percent_change_24h : ChangeInputs,
     price_eur : {Scaled(<<1, 4, 0, 5>>, -1)}, percent_change_7d : ChangeInputs]

MarketCalls ==
    [tieUp : {TRUE}, fn : {"MoneroPool_market"},
     arg : [isLoading : BOOLEAN, market : {None} \cup {Some(m) : m \in Markets}]]

PageIdle ==
    /\ mounted = FALSE
    /\ query = <<>>
    /\ refetchIntervalId = <<>>
    /\ clockTimer = 0
    /\ time = 0
    /\ pulse = FALSE
    /\ lastIssue = "mount"

CallInit ==
    /\ PageIdle
    /\ PendingIdle
    /\ \/ call \in FormatterCalls
       \/ call \in FeedCalls
       \/ call \in PageCalls
       \/ call \in ChainCalls
       \/ call \in PendingCalls
       \/ call \in ChartCalls
       \/ call \in MeterCalls
       \/ call \in MarketCalls
    /\ result = None

Apply(fn, value) ==
    /\ result = None
    /\ call.fn = fn
    /\ result' = Some(value)
    /\ UNCHANGED <<call, pageVars, pendingVars>>

Call_formatHashRate == Apply("formatHashRate", formatHashRate(call.arg, call.tieUp))

Call_formatNumber == Apply("formatNumber", formatNumber(call.arg, call.tieUp))

Call_formatXMR == Apply("formatXMR", formatXMR(call.arg, call.tieUp))

Call_formatXMR_chain == Apply("formatXMR_chain", formatXMR_chain(call.arg, call.tieUp))

Call_formatNumber_chain == Apply("formatNumber_chain", formatNumber_chain(call.arg, call.tieUp))

Call_BlockchainVisual ==
    Apply("BlockchainVisual",
          BlockchainVisual(call.arg.blocks, call.arg.currentEffort, call.arg.networkDifficulty,
                           call.arg.poolHashRate, call.tieUp))

\* the page rendered for the settled queries, none of them in error
Call_MoneroPool ==
    Apply("MoneroPool",
          MoneroPool([isLoading |-> FALSE, error |-> "null", data |-> call.arg.poolData],
                     call.arg.chartData, call.arg.blocksData, 0, FALSE, call.tieUp))

Call_BlockchainVisual_chain ==
    Apply("BlockchainVisual_chain",
          BlockchainVisual_chain(call.arg.blocks, call.arg.currentEffort, call.arg.networkDifficulty,
                                 call.arg.poolHashRate, call.now, 0, call.tieUp))

Call_PendingBlock ==
    Apply("PendingBlock",
          PendingBlock(call.arg.currentEffort, call.arg.difficulty, call.arg.poolHashRate, 0, call.tieUp))

Call_processedChartData ==
    Apply("processedChartData", [threw |-> FALSE, series |-> processedChartData(call.arg.chartData)])

Call_MoneroPool_market ==
    Apply("MoneroPool_market",
          LET card == MoneroPool_priceCard(call.arg.market, call.arg.isLoading, call.tieUp)
              panel == MoneroPool_marketPanel(call.arg.market, call.arg.isLoading, call.tieUp)
          IN  [threw |-> card.threw \/ panel.threw, card |-> card, panel |-> panel])

Call_EffortMeter == Apply("EffortMeter", EffortMeter(call.arg.value, call.arg.color, call.tieUp))

CallNext ==
    \/ Call_EffortMeter
    \/ Call_MoneroPool_market
    \/ Call_processedChartData
    \/ Call_BlockchainVisual
    \/ Call_BlockchainVisual_chain
    \/ Call_PendingBlock
    \/ Call_MoneroPool
    \/ Call_formatHashRate
    \/ Call_formatNumber
    \/ Call_formatXMR
    \/ Call_formatXMR_chain
    \/ Call_formatNumber_chain

CallSpec == CallInit /\ [][CallNext]_vars

(***************************************************************************)
(* Claims about the formatting utilities, checked under CallSpec           *)
(***************************************************************************)
Called(fn) == call.fn = fn /\ result # None

RECURSIVE IndexOf(_, _)
\* the first position of ch in text, Len(text) + 1 when there is none
IndexOf(text, ch) ==
    IF text = <<>> \/ text[1] = ch THEN 1 ELSE 1 + IndexOf(Tail(text), ch)

\* of "999.00 H/s": the characters before the decimal point, and the unit
IntegerPart(text) == SubSeq(text, 1, IndexOf(text, ".") - 1)

UnitPart(text) == SubSeq(text, IndexOf(text, " ") + 1, Len(text))

UnitName(k) ==
    CASE k = 12 -> <<"T", "H", "/", "s">>
      [] k = 9 -> <<"G", "H", "/", "s">>
      [] k = 6 -> <<"M", "H", "/", "s">>
      [] k = 3 -> <<"K", "H", "/", "s">>
      [] OTHER -> <<"H", "/", "s">>

UnitExponents == {0, 3, 6, 9, 12}

\* the largest unit whose threshold x meets (H/s has none)
LargestUnitMet(x) ==
    CHOOSE k \in UnitExponents :
        /\ k > 0 => GePow10(x, k)
        /\ \A j \in UnitExponents : j > k => ~GePow10(x, j)

\* a displayed magnitude in [1, 1000): one to three integer digits, not 0, no sign
InUnitRange(text) ==
    LET int == IntegerPart(text)
    IN  Len(int) \in 1..3 /\ int # <<"0">> /\ int[1] # "-"

HashRateExamples ==
    /\ call.arg = Num(999) => The(result).text = <<"9", "9", "9", ".", "0", "0", " ", "H", "/", "s">>
    /\ call.arg = Num(1000) => The(result).text = <<"1", ".", "0", "0", " ", "K", "H", "/", "s">>
    /\ call.arg = Scaled(<<1, 5>>, 11) => The(result).text = <<"1", ".", "5", "0", " ", "T", "H", "/", "s">>

ZeroString(fn) == IF fn = "formatHashRate" THEN ZeroHashRate ELSE <<"0">>

\* C10: for undefined, null, 0 and NaN, formatHashRate returns "0 H/s",
\* formatNumber "0" and both declarations of formatXMR "0"; no call raises,
\* whatever number or absent value it is given.
C10_ZeroSafe ==
    result # None =>
        /\ ~The(result).threw
        /\ call.arg \in {Undefined, Null, NaN, Num(0)} => The(result).text = ZeroString(call.fn)

\* C10 witness: the 4-decimal formatXMR has returned "0" for null, and the call
\* set holds undefined for formatHashRate
C10_Witness ==
    /\ Called("formatXMR_chain")
    /\ call.arg = Null
    /\ The(result) = Returned(<<"0">>)

\* x with digits decimals, cut off (down) or cut off and raised by one unit of
\* the last place (up)
Decimals(x, digits, up) ==
    LET kept == x.i \o SubSeq(x.f \o Zeros(digits), 1, digits)
    IN  FixedText(StripLeading(IF up THEN Increment(kept) ELSE kept), digits, x.neg)

\* the characters after the decimal point
FractionPart(text) == SubSeq(text, IndexOf(text, ".") + 1, Len(text))

XMRDecimals(fn) == IF fn = "formatXMR" THEN 8 ELSE 4

\* C11: for every amount a other than 0, the exported formatXMR returns
\* a / 10^12 with exactly 8 decimals and the chain visualization's formatXMR
\* returns it with exactly 4: the quotient itself when it has no more decimals
\* than that, else one of its two neighbours with that many decimals; 10^12
\* gives 1.00000000 and 1.0000.
C11_XMRDecimals ==
    ((Called("formatXMR") \/ Called("formatXMR_chain")) /\ call.arg.t = "number" /\ ~IsZero(call.arg)) =>
        LET d == XMRDecimals(call.fn)
            quotient == DivPow10(call.arg, 12)
            text == The(result).text
        IN  /\ ~The(result).threw
            /\ Len(FractionPart(text)) = d
            /\ text \in {Decimals(quotient, d, FALSE), Decimals(quotient, d, TRUE)}
            /\ Len(quotient.f) <= d => text = Decimals(quotient, d, FALSE)
            /\ call.arg = Scaled(<<1>>, 12) =>
                    text = (IF d = 8 THEN <<"1", ".", "0", "0", "0", "0", "0", "0", "0", "0">>
                            ELSE <<"1", ".", "0", "0", "0", "0">>)

\* C11 witness: the chain visualization's formatXMR has returned 1.0000 for
\* 10^12, and an amount with more than 8 decimals of XMR is among the calls
C11_Witness ==
    /\ Called("formatXMR_chain")
    /\ call.arg = Scaled(<<1>>, 12)
    /\ The(result).text = <<"1", ".", "0", "0", "0", "0">>
    /\ \E c \in FormatterCalls : c.fn = "formatXMR" /\ Len(DivPow10(c.arg, 12).f) > 8

(***************************************************************************)
(* Claims about the compact block feed, checked under CallSpec             *)
(***************************************************************************)
\* C7 as stated: an undefined block sequence renders the three loading bars and
\* no content, a defined sequence of zero blocks renders "No blocks found yet";
\* the bars are never shown for a defined sequence, nor the message for an
\* undefined one.
C7_LoadingDistinctFromEmpty ==
    Called("BlockchainVisual") =>
        LET feed == The(result)
        IN  /\ call.arg.blocks = None =>
                    feed.skeletons = FeedSkeletons /\ feed.rows = <<>> /\ feed.emptyMessage = <<>>
            /\ call.arg.blocks = Some(<<>>) =>
                    feed.skeletons = 0 /\ feed.emptyMessage = <<"No blocks found yet">>
            /\ call.arg.blocks # None => feed.skeletons = 0

\* C8: for a block sequence of length n the feed renders exactly min(n, 5) rows,
\* row k showing the k-th supplied block (its hash as key, its height), and the
\* footer's block count is the number of rows rendered.
C8_FirstFiveInOrder ==
    Called("BlockchainVisual") =>
        LET feed == The(result)
            supplied == IF call.arg.blocks = None THEN <<>> ELSE The(call.arg.blocks)
            shown == Min(Len(supplied), 5)
        IN  /\ Len(feed.rows) = shown
            /\ \A k \in 1..shown :
                    /\ feed.rows[k].key = supplied[k].hash
                    /\ feed.rows[k].height = <<"#">> \o jsText(supplied[k].height)
            /\ feed.totalBlocks = (IF shown = 0 THEN <<"0">> ELSE DigitStr(NatDigits(shown)))

\* C8 witness: six blocks were supplied, the first two different, and five rows
\* are rendered with 5 in the footer
C8_Witness ==
    /\ Called("BlockchainVisual")
    /\ call.arg.blocks # None
    /\ Len(The(call.arg.blocks)) = 6
    /\ The(call.arg.blocks)[1] # The(call.arg.blocks)[2]
    /\ Len(The(result).rows) = 5
    /\ The(result).totalBlocks = <<"5">>

(***************************************************************************)
(* Claims about the full chain visualization, checked under CallSpec       *)
(***************************************************************************)
\* the blocks a call of the chain visualization was given
Supplied == IF call.arg.blocks = None THEN <<>> ELSE The(call.arg.blocks)

\* a number of at most 3 decimals in thousandths
Thousandths(x) ==
    LET n == DigitsNat(ScaledDigits(x, 3))
    IN  IF x.neg THEN 0 - n ELSE n

\* border, fill gradient and glow of a tier
TierStyle(tier) ==
    CASE tier = "green" -> <<"border-green-500/50", "from-green-500 to-green-600", "shadow-green-500/30">>
      [] tier = "cyan" -> <<"border-cyan-500/50", "from-cyan-500 to-blue-500", "shadow-cyan-500/30">>
      [] tier = "orange" -> <<"border-orange-500/50", "from-orange-500 to-amber-500", "shadow-orange-500/30">>
      [] tier = "red" -> <<"border-red-500/50", "from-red-500 to-pink-500", "shadow-red-500/30">>

Tiers == {"green", "cyan", "orange", "red"}

TierOf(thousandths) ==
    IF thousandths < 50000 THEN "green"
    ELSE IF thousandths < 100000 THEN "cyan"
    ELSE IF thousandths < 150000 THEN "orange"
    ELSE "red"

\* C12: every block card has the border, the fill gradient and the glow of
\* one and the same tier, and for an effort e that is a number, or absent and
\* then counted as 0, the tier is green for e < 50, cyan for 50 <= e < 100,
\* orange for 100 <= e < 150 and red for e >= 150.
C12_EffortTiers ==
    Called("BlockchainVisual_chain") =>
        \A k \in 1..Len(The(result).cards) :
            LET card == The(result).cards[k]
                e == Supplied[k].effort
                style == <<card.effortBorder, card.effortColor, card.effortGlow>>
            IN  /\ \E tier \in Tiers : style = TierStyle(tier)
                /\ e.t \in {"undefined", "null"} => style = TierStyle("green")
                /\ e.t = "number" => style = TierStyle(TierOf(Thousandths(e)))

\* C12 witness: a card of effort 99.999 is rendered in the cyan tier, and the
\* efforts 100, 149.999 and 150 and an absent effort are among the calls
C12_Witness ==
    /\ Called("BlockchainVisual_chain")
    /\ Supplied = <<EffortBlock(Scaled(<<9, 9, 9, 9, 9>>, -3))>>
    /\ The(result).cards[1].effortBorder = "border-cyan-500/50"
    /\ {Undefined, Num(100), Scaled(<<1, 4, 9, 9, 9, 9>>, -3), Num(150)} \subseteq EffortInputs

RECURSIVE TextDigits(_)
\* the digits of a decimal text, in order
TextDigits(text) ==
    IF text = <<>> THEN <<>>
    ELSE (IF \E d \in Digit : DigitChar[d + 1] = text[1]
          THEN <<CHOOSE d \in Digit : DigitChar[d + 1] = text[1]>> ELSE <<>>)
             \o TextDigits(Tail(text))

\* a decimal text in units of its last place
InUnits(text) ==
    LET n == DigitsNat(TextDigits(text))
    IN  IF text # <<>> /\ text[1] = "-" THEN 0 - n ELSE n

RECURSIVE SumTo(_, _)
\* f[1] + ... + f[k]
SumTo(f, k) == IF k = 0 THEN 0 ELSE SumTo(f, k - 1) + f[k]

Distance(a, b) == IF a < b THEN b - a ELSE a - b

\* an effort, absent counted as 0, in thousandths of a percent
EffortThousandths(block) == IF block.effort.t = "number" THEN Thousandths(block.effort) ELSE 0

\* a value, absent counted as 0, in units of 10^8, a ten-thousandth of an XMR
ValueUnits(block) == IF block.value.t = "number" THEN DigitsNat(DivPow10(block.value, 8).i) ELSE 0

\* C13: for every non-empty block sequence of length n whose efforts are
\* numbers or absent, with k = min(n, 10): the average effort shown is the sum
\* of the first k efforts (an absent one counted as 0) divided by k, to one
\* decimal and rounded to the nearest tenth; the average reward shown is the
\* sum of the first k values divided by k, in XMR to 4 decimals as formatXMR
\* gives it; both are what the first 10 blocks alone give; efforts 10, 20, 30
\* and values 1e12, 2e12, 3e12 give 20.0% and formatXMR(2e12).
C13_Averages ==
    (/\ Called("BlockchainVisual_chain")
     /\ Len(Supplied) > 0
     /\ \A j \in 1..Len(Supplied) : Supplied[j].effort.t \in {"number", "undefined"}) =>
        LET n == Len(Supplied)
            k == IF n < 10 THEN n ELSE 10
            efforts == SumTo([j \in 1..k |-> EffortThousandths(Supplied[j])], k)
            values == SumTo([j \in 1..k |-> ValueUnits(Supplied[j])], k)
            shown == The(result)
            effortText == SubSeq(shown.avgEffort, 1, Len(shown.avgEffort) - 1)
            firstTen == BlockchainVisual_chain(Some(SubSeq(Supplied, 1, k)), call.arg.currentEffort,
                                                call.arg.networkDifficulty, call.arg.poolHashRate,
                                                call.now, FALSE, call.tieUp)
        IN  /\ ~shown.threw
            /\ shown.avgEffort[Len(shown.avgEffort)] = "%"
            /\ Len(FractionPart(effortText)) = 1
            /\ 2 * Distance(100 * k * InUnits(effortText), efforts) <= 100 * k
            /\ IF values = 0 THEN shown.avgReward = <<"0">>
               ELSE /\ Len(FractionPart(shown.avgReward)) = 4
                    /\ 2 * Distance(k * InUnits(shown.avgReward), values) <= k
            /\ values % k = 0 =>
                    shown.avgReward = formatXMR_chain(Scaled(NatDigits(values \div k), 8), call.tieUp).text
            /\ shown.avgEffort = firstTen.avgEffort
            /\ shown.avgReward = firstTen.avgReward
            /\ Supplied = ExampleBlocks =>
                    /\ shown.avgEffort = <<"2", "0", ".", "0", "%">>
                    /\ shown.avgReward = formatXMR_chain(Scaled(<<2>>, 12), call.tieUp).text
                    /\ shown.avgReward = <<"2", ".", "0", "0", "0", "0">>

\* C13 witness: of 11 blocks, ten without an effort and then one of effort 40,
\* the averages shown are those of the ten, and the three example blocks are
\* among the calls
C13_Witness ==
    /\ Called("BlockchainVisual_chain")
    /\ Len(Supplied) = 11
    /\ \A j \in 1..10 : Supplied[j] = Block(2, {"effort"})
    /\ Supplied[11] = Block(1, {})
    /\ The(result).avgEffort = <<"0", ".", "0", "%">>
    /\ The(result).avgReward = <<"0", ".", "6", "2", "0", "0">>
    /\ \E c \in ChainCalls : c.arg.blocks = Some(ExampleBlocks)

\* C14: when the block sequence given to the full chain visualization is
\* empty or absent, the latest height and the last-found age are a dash, the
\* average effort is 0% and the average reward 0, no block card is rendered,
\* nothing is divided and nothing throws.
C14_EmptyChain ==
    (Called("BlockchainVisual_chain") /\ call.arg.blocks \in {None, Some(<<>>)}) =>
        /\ ~The(result).threw
        /\ The(result).latestHeight = <<"-">>
        /\ The(result).lastFound = <<"-">>
        /\ The(result).avgEffort = <<"0", "%">>
        /\ The(result).avgReward = <<"0">>
        /\ The(result).cards = <<>>
        /\ The(result).divisor = None

\* C14 witness: the chain visualization has rendered an empty sequence with
\* dashes, and an absent one is among the calls
C14_Witness ==
    /\ Called("BlockchainVisual_chain")
    /\ call.arg.blocks = Some(<<>>)
    /\ The(result).latestHeight = <<"-">>
    /\ The(result).avgEffort = <<"0", "%">>
    /\ \E c \in ChainCalls : c.arg.blocks = None

\* a whole number of at most 9 digits as an integer
Whole(x) == IF x.neg THEN 0 - DigitsNat(x.i) ELSE DigitsNat(x.i)

IsSmallWhole(x) == x.t = "number" /\ x.f = <<>> /\ Len(x.i) <= 9

\* floor(a / b) of integers, b # 0
FloorOf(a, b) == IF b > 0 THEN a \div b ELSE (0 - a) \div (0 - b)

\* the ETA label of a whole number of minutes
EtaLabel(minutes) == <<"~">> \o IntText(minutes) \o <<"m ETA">>

\* C15 as stated: estimatedSeconds is floor(difficulty / poolHashRate) when
\* difficulty and poolHashRate are both positive and 0 otherwise, and the ETA
\* shown is floor(estimatedSeconds / 60) minutes.
C15_AsStated ==
    (Called("PendingBlock") /\ IsSmallWhole(call.arg.difficulty) /\ IsSmallWhole(call.arg.poolHashRate)) =>
        LET d == Whole(call.arg.difficulty)
            h == Whole(call.arg.poolHashRate)
            seconds == IF d > 0 /\ h > 0 THEN FloorOf(d, h) ELSE 0
        IN  /\ The(result).estimatedSeconds = Num(seconds)
            /\ The(result).eta = EtaLabel(FloorOf(seconds, 60))

\* C15 amended: estimatedSeconds is floor(difficulty / poolHashRate) when
\* difficulty and poolHashRate are both numbers other than 0, of either sign,
\* and 0 when either is 0, NaN, null or absent; the ETA shown is
\* floor(estimatedSeconds / 60) minutes.  Difficulty 600 and hash rate 10 show
\* 1, difficulty 3.6e11 and hash rate 1.5e9 show 4, difficulty 599 and hash
\* rate 7.5 give 79 seconds and show 1, and difficulty -600 and hash rate 10
\* show -1.
C15_Estimate ==
    Called("PendingBlock") =>
        LET difficulty == call.arg.difficulty
            poolHashRate == call.arg.poolHashRate
            shown == The(result)
            divided == /\ difficulty.t = "number" /\ ~IsZero(difficulty)
                       /\ poolHashRate.t = "number" /\ ~IsZero(poolHashRate)
        IN  /\ ~divided => /\ shown.estimatedSeconds = Num(0)
                           /\ shown.eta = EtaLabel(0)
            /\ (divided /\ IsSmallWhole(difficulty) /\ IsSmallWhole(poolHashRate)) =>
                    LET seconds == FloorOf(Whole(difficulty), Whole(poolHashRate))
                    IN  /\ shown.estimatedSeconds = Num(seconds)
                        /\ shown.eta = EtaLabel(FloorOf(seconds, 60))
            /\ (difficulty = Num(600) /\ poolHashRate = Num(10)) =>
                    shown.eta = <<"~", "1", "m ETA">>
            /\ (difficulty = Scaled(<<3, 6>>, 10) /\ poolHashRate = Scaled(<<1, 5>>, 8)) =>
                    /\ shown.estimatedSeconds = Num(240)
                    /\ shown.eta = <<"~", "4", "m ETA">>
            /\ (difficulty = Num(599) /\ poolHashRate = Scaled(<<7, 5>>, -1)) =>
                    /\ shown.estimatedSeconds = Num(79)
                    /\ shown.eta = <<"~", "1", "m ETA">>
            /\ (difficulty = Negated(Num(600)) /\ poolHashRate = Num(10)) =>
                    shown.eta = <<"~", "-", "1", "m ETA">>

\* C15 witness: difficulty 600 at hash rate 10 has shown 1 minute, and a hash
\* rate of 0 and a negative difficulty are among the calls
C15_Witness ==
    /\ Called("PendingBlock")
    /\ call.arg.difficulty = Num(600)
    /\ call.arg.poolHashRate = Num(10)
    /\ The(result).estimatedSeconds = Num(60)
    /\ The(result).eta = <<"~", "1", "m ETA">>
    /\ \E c \in PendingCalls : c.arg.poolHashRate = Num(0) /\ c.arg.difficulty = Negated(Num(600))

(***************************************************************************)
(* Claims about the page's derived displays, checked under CallSpec        *)
(***************************************************************************)
\* C16: for every raw chart series of n points the derived series has exactly
\* min(n, 48) points, the j-th of which is derived from the j-th of the last
\* min(n, 48) raw points: its pool times 1,000,000 is that point's hs, and its
\* time is that point's hour and minute; an absent raw series derives the
\* empty series.
C16_ChartSeries ==
    Called("processedChartData") =>
        IF call.arg.chartData = None THEN The(result).series = <<>>
        ELSE LET raw == The(call.arg.chartData)
                 n == Len(raw)
                 kept == IF n < 48 THEN n ELSE 48
                 derived == The(result).series
             IN  /\ Len(derived) = kept
                 /\ \A j \in 1..kept :
                        LET k == n - kept + j
                            seconds == (1700000000 + 60 * k) % 86400
                        IN  /\ derived[j].pool.t = "number"
                            /\ Len(derived[j].pool.f) <= 6
                            /\ ~derived[j].pool.neg
                            /\ DigitsNat(ScaledDigits(derived[j].pool, 6)) = Whole(raw[k].hs)
                            /\ derived[j].time = IntText((seconds \div 3600) \div 10)
                                                    \o IntText((seconds \div 3600) % 10) \o <<":">>
                                                    \o IntText(((seconds % 3600) \div 60) \div 10)
                                                    \o IntText(((seconds % 3600) \div 60) % 10)

\* C16 witness: a raw series of 100 points has derived 48, the first of them
\* from the 53rd raw point, and an absent series is among the calls
C16_Witness ==
    /\ Called("processedChartData")
    /\ call.arg.chartData # None
    /\ Len(The(call.arg.chartData)) = 100
    /\ Len(The(result).series) = 48
    /\ The(result).series[1].pool = Scaled(<<6, 5, 4, 3, 2, 0, 5, 1>>, -6)
    /\ \E c \in ChartCalls : c.arg.chartData = None

\* a number greater than 0
Positive(x) == x.t = "number" /\ ~x.neg /\ (x.i # <<>> \/ x.f # <<>>)

\* C17: when the page is not loading, the XMR/USD stat card shows the upward
\* glyph in green exactly when percent_change_24h is a number > 0 and the
\* downward glyph in red for every other value, 0 and an absent one included;
\* each market row given a change (XMR/USD the 24 h change, 7 Day the 7 day
\* change) shows the upward arrow in green exactly when that change is > 0
\* and the downward arrow in red for every other value given; a row given no
\* change shows no indicator.
C17_MarketIndicators ==
    (Called("MoneroPool_market") /\ ~call.arg.isLoading) =>
        LET day == Leaf(call.arg.market, "percent_change_24h")
            week == Leaf(call.arg.market, "percent_change_7d")
            card == The(result).card
            rows == The(The(result).panel.rows)
            Indicates(row, change) ==
                IF change.t = "undefined" THEN row.change = None
                ELSE /\ row.change # None
                     /\ The(row.change).arrow = (IF Positive(change) THEN "up" ELSE "down")
                     /\ The(row.change).colour =
                            (IF Positive(change) THEN "text-green-400" ELSE "text-red-400")
        IN  /\ ~The(result).threw
            /\ card.sub # None
            /\ The(card.sub).glyph = (IF Positive(day) THEN "TrendingUp" ELSE "TrendingDown")
            /\ The(card.sub).colour = (IF Positive(day) THEN "text-green-400" ELSE "text-red-400")
            /\ Indicates(rows.usd, day)
            /\ Indicates(rows.week, week)
            /\ rows.eur.change = None

\* C17 witness: a 24 h change of 0 has rendered the downward glyph in red on
\* the stat card and the downward arrow in red on the XMR/USD row, beside a
\* 7 day change of 1.5 rendered upward in green
C17_Witness ==
    /\ Called("MoneroPool_market")
    /\ ~call.arg.isLoading
    /\ call.arg.market # None
    /\ The(call.arg.market).percent_change_24h = Num(0)
    /\ The(call.arg.market).percent_change_7d = Scaled(<<1, 5>>, -1)
    /\ The(The(result).card.sub).glyph = "TrendingDown"
    /\ The(The(The(result).panel.rows).usd.change).arrow = "down"
    /\ The(The(The(result).panel.rows).week.change).colour = "text-green-400"

\* C18: the pool-configuration panel substitutes its defaults only for absent
\* fields: the pool fee shows 0.9, the maturity depth 30 and the minimum
\* payout 0 when the config field is absent from the response, and each shows
\* the value the response reports whenever the field is present.
C18_DefaultsOnlyForAbsent ==
    (Called("MoneroPool") /\ call.arg.poolData # None) =>
        LET config == The(call.arg.poolData).config
            fee == Leaf(config, "pplns_fee")
            depth == Leaf(config, "maturity_depth")
            minimum == Leaf(Part(config, "payout"), "minimum")
            panel == The(The(result).config)
        IN  /\ panel.fee = (IF fee.t = "undefined" THEN <<"0", ".", "9">> ELSE jsText(fee)) \o <<"%">>
            /\ panel.maturity = (IF depth.t = "undefined" THEN <<"3", "0">> ELSE jsText(depth))
                                    \o <<" blocks">>
            /\ panel.minPayout = (IF minimum.t = "undefined" THEN <<"0">>
                                  ELSE formatXMR(minimum, call.tieUp).text) \o <<" XMR">>

RECURSIVE Pow10(_)
Pow10(n) == IF n = 0 THEN 1 ELSE 10 * Pow10(n - 1)

\* a percentage text of at most 3 decimals, without its % sign, in thousandths
PercentThousandths(text) ==
    LET number == SubSeq(text, 1, Len(text) - 1)
    IN  InUnits(number) * Pow10(3 - Len(FractionPart(number)))

\* the effort a meter or the feed was given
EffortGiven == IF call.fn = "EffortMeter" THEN call.arg.value ELSE call.arg.currentEffort

\* C19: for every effort v that is a number, the dashboard's effort meter and
\* the compact feed's effort bar both have the bar width min(v, 100) percent
\* and print v itself, unclamped, rounded to 2 decimals; the effort meter has
\* its overflow class exactly when v > 100 and the class of its own colour
\* otherwise.  An absent effort gives width 0 and prints 0.00.
C19_EffortBar ==
    ((Called("EffortMeter") \/ (Called("BlockchainVisual") /\ call.arg.blocks # None))
        /\ EffortGiven.t \in {"number", "undefined"}) =>
        LET v == IF EffortGiven.t = "number" THEN Thousandths(EffortGiven) ELSE 0
            shown == The(result)
            width == IF call.fn = "EffortMeter" THEN shown.width ELSE shown.barWidth
            label == IF call.fn = "EffortMeter" THEN shown.label ELSE shown.effortLabel
            printed == SubSeq(label, 1, Len(label) - 1)
        IN  /\ ~shown.threw
            /\ width[Len(width)] = "%"
            /\ PercentThousandths(width) = (IF v < 100000 THEN v ELSE 100000)
            /\ label[Len(label)] = "%"
            /\ Len(FractionPart(printed)) = 2
            /\ 2 * Distance(10 * InUnits(printed), v) <= 10
            /\ call.fn = "EffortMeter" =>
                    shown.labelClass = (IF v > 100000 THEN "text-orange-400 animate-pulse"
                                        ELSE EffortMeter_text(call.arg.color))

\* C19 witness: an effort meter given 250.75 has printed 250.75% in its
\* overflow class over a bar of width 100%, and the feed is called with the
\* same effort
C19_Witness ==
    /\ Called("EffortMeter")
    /\ call.arg.value = Scaled(<<2, 5, 0, 7, 5>>, -2)
    /\ call.arg.color = "pink"
    /\ The(result).label = <<"2", "5", "0", ".", "7", "5", "%">>
    /\ The(result).labelClass = "text-orange-400 animate-pulse"
    /\ The(result).width = <<"1", "0", "0", "%">>
    /\ \E c \in FeedCalls : c.arg.currentEffort = Scaled(<<2, 5, 0, 7, 5>>, -2)

(***************************************************************************)
(* Claims about absent fields, checked under CallSpec                      *)
(***************************************************************************)
InvalidDate == <<"Invalid Date">>

\* C6: for a successful response with any set of fields absent, rendering the
\* page and the block feed raises nothing and every display of an absent
\* value shows zero or a placeholder: no time display reads Invalid Date and
\* no charted value is NaN.
C6_AbsentFieldsShowZeroOrPlaceholder ==
    Called("MoneroPool") =>
        LET page == The(result)
            rows == The(page.feed).rows
            series == The(page.chart).series
        IN  /\ ~page.threw
            /\ page.view = "dashboard"
            /\ \A k \in 1..Len(rows) : rows[k].time # InvalidDate
            /\ \A k \in 1..Len(series) :
                    series[k].time # InvalidDate /\ series[k].pool.t # "nan"

(***************************************************************************)
(* Claims about the dashboard page, checked under Spec                     *)
(***************************************************************************)
Page == View(TRUE)

ErrorViewShown == mounted /\ Page.view = "error"

DashboardShown == mounted /\ Page.view = "dashboard"

Failed(q) == query[q].status = "error"

Click == RetryClick \/ RefreshClick

\* a fetch of q is under way: a request in flight, or the wait before a retry
Fetching(q) == query[q].fetchStatus = "fetching"

\* C1: while the page is mounted, the error view is rendered exactly when the
\* pool-statistics query is in its error state, whatever the chart and blocks
\* queries hold and whether or not the pool-statistics query holds data; the
\* error view is the message and the Retry button and no section of the
\* dashboard, and the dashboard has every section and no message.
C1_ErrorViewIffStatsError ==
    mounted =>
        LET page == Page
        IN  /\ page.view = "error" <=> Failed("poolStats")
            /\ page.view = "error" =>
                    /\ page.message = ErrorMessage
                    /\ page.buttons = {"Retry"}
                    /\ page.header = None /\ page.topStats = None /\ page.feed = None
                    /\ page.network = None /\ page.chart = None /\ page.config = None
            /\ page.view # "error" =>
                    /\ page.view = "dashboard"
                    /\ page.message = <<>>
                    /\ page.buttons = {"Refresh"}
                    /\ page.header # None /\ page.topStats # None /\ page.feed # None
                    /\ page.network # None /\ page.chart # None /\ page.config # None

\* C1 witness: the error view is shown while the pool-statistics query holds
\* the data of an earlier poll, and the chart and blocks queries hold data
\* and are not in error
C1_Witness ==
    /\ ErrorViewShown
    /\ query["poolStats"].data # None
    /\ query["hashChart"].status = "success"
    /\ query["blocks"].status = "success"

\* C2 as stated: after a click on Retry or on the refresh button a fetch is
\* under way for each of the three queries.
C2_AsStated == [][Click => \A q \in Queries : Fetching(q)']_vars

\* C2 amended: a click on Retry or on the refresh button refetches the
\* pool-statistics query and no other.  A pool-statistics fetch is under way
\* after it: a new one, which replaces a fetch already under way, unless the
\* query holds no data and is fetching, when the click joins that fetch and
\* changes nothing.  The chart and blocks queries and their poll timers are
\* as before the click.
C2_RefetchesPoolStatsOnly ==
    [][Click =>
          /\ Fetching("poolStats")'
          /\ query'["poolStats"] =
                IF Fetching("poolStats") /\ query["poolStats"].data = None
                THEN query["poolStats"] ELSE FetchStarted(query["poolStats"])
          /\ \A q \in Queries \ {"poolStats"} :
                query'[q] = query[q] /\ refetchIntervalId'[q] = refetchIntervalId[q]]_vars

\* C2 witness: the most recent fetch was started by refetch(), from the error
\* view; the pool-statistics fetch is under way, the chart and blocks queries
\* are idle
C2_Witness ==
    /\ ErrorViewShown
    /\ lastIssue = "refetch"
    /\ Fetching("poolStats")
    /\ query["poolStats"].failureCount = 0
    /\ ~Fetching("hashChart")
    /\ ~Fetching("blocks")

C5_AsStated ==
    (mounted /\ ~Failed("poolStats")) =>
        LET page == Page
        IN  /\ page.view = "dashboard" /\ page.message = <<>> /\ ~page.threw
            /\ Failed("hashChart") => The(page.chart).placeholder
            /\ Failed("blocks") =>
                    (The(page.feed).skeletons > 0 \/ The(page.feed).emptyMessage # <<>>)

\* what the page shows while the pool-statistics query has not failed
C5_Shown ==
    (mounted /\ ~Failed("poolStats")) =>
        LET page == Page
            chart == The(page.chart)
            feed == The(page.feed)
            points == query["hashChart"].data
            blocks == query["blocks"].data
        IN  /\ page.view = "dashboard" /\ page.message = <<>> /\ ~page.threw
            /\ page.header # None /\ page.topStats # None /\ page.network # None
            /\ page.config # None
            /\ (Failed("hashChart") /\ points = None) => chart.placeholder
            /\ (Failed("hashChart") /\ points # None /\ points # Some(<<>>)) =>
                    /\ ~chart.placeholder
                    /\ Len(chart.series) = Min(Len(The(points)), ChartPointsKept)
            /\ (Failed("blocks") /\ blocks = None) =>
                    (feed.skeletons > 0 \/ feed.emptyMessage # <<>>)
            /\ (Failed("blocks") /\ blocks # None /\ blocks # Some(<<>>)) =>
                    /\ feed.skeletons = 0 /\ feed.emptyMessage = <<>>
                    /\ Len(feed.rows) = Min(Len(The(blocks)), FeedRowsShown)

\* C5 amended: while the pool-statistics query has not failed the dashboard
\* is rendered, with no error text and with every section, whatever the chart
\* and blocks queries hold.  A failed chart query that holds no data of an
\* earlier success leaves the chart section showing its placeholder, and a
\* failed blocks query that holds none leaves the feed in its loading or
\* empty state; a query that fails after an earlier success keeps the data of
\* that success, and the chart goes on showing the series, the feed the rows,
\* of those data.
C5_FailedWidgetKeepsLastData ==
    /\ []C5_Shown
    /\ [][\A q \in Queries \ {"poolStats"} :
            (Failed(q)' /\ query[q].data # None) => query'[q].data = query[q].data]_vars

\* C5 witness: the dashboard is shown, the chart and blocks queries have
\* failed after an earlier success, and the chart shows a series and the feed
\* shows rows
C5_Witness ==
    /\ DashboardShown
    /\ Failed("hashChart") /\ ~Fetching("hashChart")
    /\ Failed("blocks") /\ ~Fetching("blocks")
    /\ ~The(Page.chart).placeholder
    /\ Len(The(Page.feed).rows) = 2

(***************************************************************************)
(* Claims about unmounting, checked under LifeSpec                         *)
(***************************************************************************)
\* what the page displays: its view while mounted, nothing once unmounted
Screen == IF mounted THEN Some(View(TRUE)) ELSE None

\* C20: in every step taken while the page is unmounted, the clock does not
\* fire (time and pulse stay as they are and no clock interval is armed), no
\* fetch is issued by a poll or otherwise (no query goes from idle to
\* fetching, and no refetch interval is armed), and what is displayed does
\* not change, whatever response of a fetch in flight the step delivers; and
\* in every step taken while the PendingBlock is unmounted its pulse
\* intensity stays as it is and no pulse interval is armed.
C20_QuietAfterUnmount ==
    [][/\ ~mounted =>
            /\ ~mounted'
            /\ time' = time
            /\ pulse' = pulse
            /\ clockTimer' = 0
            /\ \A q \in Queries : refetchIntervalId'[q] = 0
            /\ \A q \in Queries : query[q].fetchStatus = "idle" => query'[q].fetchStatus = "idle"
            /\ lastIssue' = lastIssue
            /\ Screen' = Screen
       /\ ~pendingMounted =>
            /\ ~pendingMounted'
            /\ pulseIntensity' = pulseIntensity
            /\ pulseTimer' = 0]_vars

\* C20 witness: the page was unmounted after its clock had ticked, with the
\* pool-statistics fetch still in flight and the blocks response delivered
C20_Witness ==
    /\ ~mounted
    /\ time = 1
    /\ InFlight("poolStats")
    /\ query["blocks"].status = "success"
    /\ clockTimer = 0
    /\ \A q \in Queries : refetchIntervalId[q] = 0

\* a text without its grouping commas
Ungrouped(text) == SelectSeq(text, LAMBDA ch : ch # ",")

(***************************************************************************)
(* Claims about the aggregate row and the cards of the full chain          *)
(* visualization, checked under CallSpec                                   *)
(***************************************************************************)
\* C24 as stated: the latest-height cell shows the dash exactly when the block
\* sequence is empty or absent; for every non-empty sequence it shows the
\* height of the block at index 0 and the last-found cell shows the relative
\* age of that block.
C24_AsStated ==
    Called("BlockchainVisual_chain") =>
        /\ (The(result).latestHeight = <<"-">>) <=> (Supplied = <<>>)
        /\ Supplied # <<>> =>
                /\ The(result).latestHeight = formatNumber_chain(Supplied[1].height, call.tieUp).text
                /\ The(result).lastFound = formatTimeAgo(Supplied[1].ts, call.now)

\* C24: the latest-height cell shows the dash exactly when the block sequence
\* is empty or absent or the height of the block at index 0 is absent, null,
\* NaN or 0; for every other sequence it shows the height of the block at
\* index 0 with its thousands grouped, whatever the blocks after it hold; the
\* last-found cell shows the dash exactly when the sequence is empty or absent
\* and otherwise the relative age of the block at index 0; a first block of
\* height 3200001 found 30 seconds ago gives 3,200,001 and 30s ago.
C24_LatestHeight ==
    Called("BlockchainVisual_chain") =>
        LET shown == The(result)
            dashed == Supplied = <<>> \/ Supplied[1].height.t \in {"undefined", "null", "nan"}
                                      \/ Supplied[1].height = Num(0)
        IN  /\ (shown.latestHeight = <<"-">>) <=> dashed
            /\ ~dashed =>
                    /\ shown.latestHeight = toLocaleString(Supplied[1].height, call.tieUp).text
                    /\ Ungrouped(shown.latestHeight) = DigitStr(Supplied[1].height.i)
            /\ (shown.lastFound = <<"-">>) <=> (Supplied = <<>>)
            /\ Supplied # <<>> => shown.lastFound = formatTimeAgo(Supplied[1].ts, call.now)
            /\ (Supplied # <<>> /\ Supplied[1] = Block(1, {}) /\ call.now = 1700003691) =>
                    /\ shown.latestHeight = <<"3", ",", "2", "0", "0", ",", "0", "0", "1">>
                    /\ shown.lastFound = <<"3", "0", "s ago">>

\* C24 witness: a sequence whose first block has height 0 and whose second
\* has a height is rendered with a dash for the latest height and with the
\* age of the first block, and a first block with a height is among the calls
C24_Witness ==
    /\ Called("BlockchainVisual_chain")
    /\ Len(Supplied) = 2
    /\ Supplied[1].height = Num(0)
    /\ Supplied[2].height = Num(3200002)
    /\ The(result).latestHeight = <<"-">>
    /\ The(result).lastFound = formatTimeAgo(Supplied[1].ts, call.now)
    /\ The(result).lastFound # <<"-">>
    /\ \E c \in ChainCalls : c.arg.blocks = Some(<<Block(1, {})>>)

\* C25: for every supplied block sequence of length n the cards rendered are
\* the first min(n, 6) blocks in supplied order, only the card at index 0 is
\* flagged as latest, and a card carries a connecting arrow exactly when
\* another rendered card follows it, so the last rendered card carries none.
C25_CardsAndArrows ==
    Called("BlockchainVisual_chain") =>
        LET cards == The(result).cards
            n == Len(Supplied)
        IN  /\ Len(cards) = (IF n < 6 THEN n ELSE 6)
            /\ \A k \in 1..Len(cards) :
                    /\ cards[k].key = Supplied[k].hash
                    /\ cards[k] = BlockCard(Supplied[k], k - 1, k = 1, call.now, call.tieUp)
                    /\ cards[k].isLatest <=> (k = 1)
                    /\ cards[k].arrow <=> (k < Len(cards))

(***************************************************************************)
(* Claims about the clock and the queries, checked under Spec              *)
(***************************************************************************)
\* C21: every step that changes the displayed time or the pulse is a clock
\* tick: it advances the time by one second and flips the pulse, it leaves
\* the state of all three queries (data, error, loading) and their refetch
\* intervals as they were and issues no fetch, and the pulse is on exactly
\* after an odd number of ticks.
C21_TickOnlyMovesClock ==
    [][/\ (time' # time \/ pulse' # pulse) =>
            /\ time' = time + 1
            /\ pulse' = ~pulse
            /\ query' = query
            /\ \A q \in Queries : QueryResult(query[q])' = QueryResult(query[q])
            /\ refetchIntervalId' = refetchIntervalId
            /\ lastIssue' = lastIssue
            /\ mounted' = mounted
       /\ pulse' = (time' % 2 = 1)]_vars

\* C21 witness: two ticks have passed, the pulse is off again, and the
\* pool-statistics fetch issued at mount is still in flight
C21_Witness ==
    /\ mounted
    /\ time = 2
    /\ ~pulse
    /\ InFlight("poolStats")
    /\ lastIssue = "mount"
    /\ query["blocks"].status = "success"

\* what a request of q can come back with
Responses(q) == {Success(body) : body \in Bodies(q)} \cup Failures(q)

\* the queries and their refetch intervals, a pair, after the fetch of q in
\* flight in the pair state comes back with response
Settled(state, q, response) ==
    LET r == queryFn(q, response)
        s == state[1][q]
        next == IF ~r.rejected THEN FetchSucceeded(s, The(r.value))
                ELSE IF mounted /\ s.failureCount < DefaultRetry THEN AttemptFailed(s, r.error)
                ELSE FetchErrored(s, r.error)
    IN  <<[state[1] EXCEPT ![q] = next],
          IF mounted THEN [state[2] EXCEPT ![q] = RefetchInterval] ELSE state[2]>>

\* the pairs of different queries
QueryPairs == {<<"poolStats", "hashChart">>, <<"poolStats", "blocks">>, <<"hashChart", "blocks">>}

\* C22: the three queries are independent.  A step that changes the state of
\* one query leaves the state and the refetch interval of the two others as
\* they were, and every step in which a fetch in flight ends is the step
\* Settled describes for one of its responses.  In every state
\* a fetch in flight can settle, by success and by failure, and an armed
\* refetch interval can fire, whatever the other queries are doing.  And for
\* two queries in flight and any responses to them, settling one and then
\* the other gives the same state as settling them in the other order.
C22_QueriesIndependent ==
    /\ [][/\ \A q \in Queries : query'[q] # query[q] =>
                \A r \in Queries \ {q} :
                    query'[r] = query[r] /\ refetchIntervalId'[r] = refetchIntervalId[r]
          /\ \A q \in Queries :
                (InFlight(q) /\ ~InFlight(q)') =>
                    \E x \in Responses(q) :
                        <<query', refetchIntervalId'>> = Settled(<<query, refetchIntervalId>>, q, x)]_vars
    /\ [](\A q \in Queries :
            /\ InFlight(q) =>
                    /\ ENABLED (\E body \in Bodies(q) : FetchSucceeds(q, body))
                    /\ ENABLED (\E response \in Failures(q) : FetchFails(q, response))
            /\ refetchIntervalId[q] > 0 => ENABLED PollTick(q))
    /\ [](\A pair \in QueryPairs :
            (InFlight(pair[1]) /\ InFlight(pair[2])) =>
                \A x \in Responses(pair[1]) : \A y \in Responses(pair[2]) :
                    Settled(Settled(<<query, refetchIntervalId>>, pair[1], x), pair[2], y) =
                        Settled(Settled(<<query, refetchIntervalId>>, pair[2], y), pair[1], x))

\* C22 witness: the blocks query has succeeded and the chart query has failed
\* an attempt while the pool-statistics fetch of the mount is still in flight
C22_Witness ==
    /\ mounted
    /\ InFlight("poolStats")
    /\ query["poolStats"].data = None
    /\ query["blocks"].status = "success"
    /\ query["hashChart"].failureCount = 1
    /\ query["hashChart"].retryWait

(***************************************************************************)
(* Claims about recovery from the error view, checked under FairSpec       *)
(***************************************************************************)
\* the pool-statistics query holds a successful response and no error
StatsLoaded ==
    /\ query["poolStats"].status = "success"
    /\ query["poolStats"].error = "null"
    /\ query["poolStats"].data # None

\* C23: every step in which a pool-statistics fetch succeeds, whether a poll
\* or a click issued it and whether or not the query was in its error state,
\* leaves the query without error and holding the response; whenever the
\* query holds a response without error the mounted page renders the
\* dashboard, not the error view, with the values of that response; and
\* whenever the error view is shown, at some later time the dashboard is shown
\* from a successful response, unless the page is unmounted first.
C23_ErrorViewRecovers ==
    /\ [][(InFlight("poolStats") /\ query'["poolStats"].status = "success"
              /\ query'["poolStats"].fetchStatus = "idle") =>
                /\ StatsLoaded'
                /\ query'["poolStats"].data \in {Some(body) : body \in Bodies("poolStats")}]_vars
    /\ []((StatsLoaded /\ mounted) =>
            /\ DashboardShown
            /\ ~ErrorViewShown
            /\ ~The(Page.topStats).poolHash.skeleton
            /\ The(Page.topStats).poolHash.value =
                    formatHashRate(The(The(The(query["poolStats"].data).pool_statistics).collective).hashRate,
                                   TRUE).text)
    /\ ErrorViewShown ~> ((DashboardShown /\ StatsLoaded) \/ ~mounted)

\* C23 witness: the error view is shown, the query holds no data, and the
\* fetch that Retry or a poll will issue can succeed
C23_Witness ==
    /\ ErrorViewShown
    /\ query["poolStats"].data = None
    /\ query["poolStats"].fetchStatus = "idle"
    /\ refetchIntervalId["poolStats"] = RefetchInterval
    /\ ENABLED RetryClick
    /\ ENABLED PollTick("poolStats")

====
